---- MODULE Spec2Model ----
(***************************************************************************)
(* Verification model of the hanabi-bot reasoning core: the hypothetical-  *)
(* stack fixed point (Player.update_hypo_stacks), clue determination       *)
(* (determine_clue / evaluate_clue), the state copies (createBlank,        *)
(* minimalCopy, Player.clone) and discard interpretation.                  *)
(***************************************************************************)
EXTENDS Integers, Sequences, FiniteSets, TLC

\* ------------------------------------------------------------------------
\* Identities
\* ------------------------------------------------------------------------
NumSuits == 2
MaxRank == 5
MaxCalls == 2

Suits == 0..(NumSuits - 1)
NoId == <<-1, -1>>
r1 == <<0, 1>>
r2 == <<0, 2>>
b1 == <<1, 1>>
b2 == <<1, 2>>
InputIds == {r1, r2, b1, b2}
Orders == {0, 1, 2}
HandsFlat == <<0, 1, 2>>
ZeroStacks == [s \in Suits |-> 0]
ZeroDiscards == [s \in Suits |-> [r \in 1..MaxRank |-> 0]]

\* types.js cardCount for a variant without dark suits or critical rank
CardCountNormal(rank) == <<3, 2, 2, 2, 1>>[rank]

\* ------------------------------------------------------------------------
\* Card (belief) helpers
\* ------------------------------------------------------------------------
\* Card.identity(options): a single possibility, else the visible identity
\* (unless symmetric), else a single inference when infer is set.
CardIdentity(card, infer, symmetric) ==
    IF Cardinality(card.possible) = 1 THEN CHOOSE i \in card.possible : TRUE
    ELSE IF ~symmetric /\ card.id # NoId THEN card.id
    ELSE IF infer /\ Cardinality(card.inferred) = 1 THEN CHOOSE i \in card.inferred : TRUE
    ELSE NoId

\* Card.matches(identity, options)
CardMatches(card, identity, infer, assume) ==
    LET id == CardIdentity(card, infer, FALSE)
    IN IF id = NoId THEN assume ELSE id = identity

\* ActualCard.matches(identity, {assume})
ActualMatches(actual, identity, assume) ==
    IF actual = NoId THEN assume ELSE actual = identity

\* Card.matches_inferences()
MatchesInferences(card) ==
    \/ CardIdentity(card, FALSE, FALSE) = NoId
    \/ Cardinality(card.possible) = 1
    \/ \E c \in card.inferred : CardMatches(card, c, FALSE, FALSE)

\* ------------------------------------------------------------------------
\* hanabi-util
\* ------------------------------------------------------------------------
RankOf(identity) == identity[2]
SuitOf(identity) == identity[1]

baseCount(state, identity) ==
    (IF state.play_stacks[SuitOf(identity)] >= RankOf(identity) THEN 1 ELSE 0)
        + state.discard_stacks[SuitOf(identity)][RankOf(identity)]

\* cards in all hands whose visible identity is the given one
visibleFind(state, identity) ==
    {o \in Orders : state.deck[o] # NoId /\ state.deck[o] = identity}

unknownIdentities(state, identity) ==
    CardCountNormal(RankOf(identity)) - baseCount(state, identity)
        - Cardinality(visibleFind(state, identity))

RECURSIVE SumUnknown(_, _, _)
SumUnknown(state, identities, i) ==
    IF i > Len(identities) THEN 0
    ELSE unknownIdentities(state, identities[i]) + SumUnknown(state, identities, i + 1)

\* Player.linkedOrders
linkedOrders(this, state) ==
    UNION {this.links[k].cards : k \in {j \in 1..Len(this.links) :
        Cardinality(this.links[j].cards) > SumUnknown(state, this.links[j].identities, 1)}}

\* ------------------------------------------------------------------------
\* Player.update_hypo_stacks
\* ------------------------------------------------------------------------
ScanFuel == MaxRank * NumSuits + 2

\* mutant: keeps the stacks of the previous call
ResetHypoStacksStale(this, state) == this.hypo_stacks
\* "Reset hypo stacks to play stacks"
ResetHypoStacks(this, state) == state.play_stacks

delayed_playable(poss, good_touch_elim, hypo_stacks) ==
    LET remaining_poss == {c \in poss : c \notin good_touch_elim}
    IN  /\ remaining_poss # {}
        /\ \A c \in remaining_poss : hypo_stacks[SuitOf(c)] + 1 = RankOf(c)

\* delayed_playable([card]) for a finessed card: the card object itself
delayed_playable_card(card, good_touch_elim, hypo_stacks) ==
    /\ ~\E e \in good_touch_elim : CardMatches(card, e, FALSE, FALSE)
    /\ card.id # NoId
    /\ hypo_stacks[SuitOf(card.id)] + 1 = RankOf(card.id)

\* waiting connections on this card that will be proven wrong
fake_wcs(this, state, order) ==
    {k \in 1..Len(this.waiting_connections) :
        LET wc == this.waiting_connections[k]
        IN  /\ wc.focused_card = order
            /\ (wc.fake \/ ~ActualMatches(state.deck[wc.focused_card], wc.inference, TRUE))}

InRemainingChain(wc, order) ==
    \E index \in 1..Len(wc.connections) :
        index - 1 >= wc.conn_index /\ wc.connections[index].card = order

\* "Do not allow false updating of hypo stacks"
FalseUpdate(this, state, acc, order, id, actual_id) ==
    /\ this.playerIndex = -1
    /\ \/ (id # NoId /\ actual_id # NoId /\ id # actual_id)
       \/ (actual_id # NoId /\ \E c \in Orders :
                c \in acc.unknown_plays /\ ActualMatches(state.deck[c], actual_id, FALSE))
       \/ /\ \E k \in 1..Len(this.waiting_connections) :
                LET wc == this.waiting_connections[k]
                IN  /\ ~ActualMatches(state.deck[wc.focused_card], wc.inference, TRUE)
                    /\ InRemainingChain(wc, order)
          /\ ~\E k \in 1..Len(this.waiting_connections) :
                LET wc == this.waiting_connections[k]
                IN  /\ ActualMatches(state.deck[wc.focused_card], wc.inference, TRUE)
                    /\ InRemainingChain(wc, order)

PromisedLinks(this, order) ==
    {k \in 1..Len(this.links) : this.links[k].promised /\ order \in this.links[k].cards}

\* mutant: an unknown play alone asks for another scan
UnknownPlayRescan(this, acc, order) ==
    LET unknown == acc.unknown_plays \cup {order}
        found == PromisedLinks(this, order)
        acc1 == [acc EXCEPT !.unknown_plays = unknown, !.found_new_playable = TRUE]
    IN  IF found # {} /\ this.links[CHOOSE k \in found : \A j \in found : k <= j].cards \subseteq unknown
        THEN LET link == this.links[CHOOSE k \in found : \A j \in found : k <= j]
                 identity == link.identities[1]
             IN  IF RankOf(identity) # acc.hypo_stacks[SuitOf(identity)] + 1
                 THEN [acc1 EXCEPT !.warnings = @ + 1]
                 ELSE [acc1 EXCEPT !.hypo_stacks[SuitOf(identity)] = RankOf(identity),
                                   !.good_touch_elim = @ \cup {identity},
                                   !.advances = Append(@, [id |-> identity, cards |-> link.cards, link |-> TRUE,
                                                          unknown |-> acc.unknown_plays])]
        ELSE acc1
\* id === undefined: the card is an unknown play; a completed promised link advances
UnknownPlay(this, acc, order) ==
    LET unknown == acc.unknown_plays \cup {order}
        found == PromisedLinks(this, order)
        acc1 == [acc EXCEPT !.unknown_plays = unknown]
    IN  IF found # {} /\ this.links[CHOOSE k \in found : \A j \in found : k <= j].cards \subseteq unknown
        THEN LET link == this.links[CHOOSE k \in found : \A j \in found : k <= j]
                 identity == link.identities[1]
             IN  IF RankOf(identity) # acc.hypo_stacks[SuitOf(identity)] + 1
                 THEN [acc1 EXCEPT !.warnings = @ + 1]
                 ELSE [acc1 EXCEPT !.hypo_stacks[SuitOf(identity)] = RankOf(identity),
                                   !.good_touch_elim = @ \cup {identity},
                                   !.found_new_playable = TRUE,
                                   !.advances = Append(@, [id |-> identity, cards |-> link.cards, link |-> TRUE,
                                                          unknown |-> acc.unknown_plays])]
        ELSE acc1

\* mutant: the stack is set to the rank of the identity whatever it was at
KnownPlayAnyRank(acc, order, id) ==
    [acc EXCEPT !.hypo_stacks[SuitOf(id)] = RankOf(id),
                !.good_touch_elim = @ \cup {id},
                !.found_new_playable = RankOf(id) = acc.hypo_stacks[SuitOf(id)] + 1,
                !.advances = Append(@, [id |-> id, cards |-> {order}, link |-> FALSE,
                                       unknown |-> acc.unknown_plays])]
\* the identity is resolved: advance its stack when it is the next rank
KnownPlay(acc, order, id) ==
    IF RankOf(id) # acc.hypo_stacks[SuitOf(id)] + 1
    THEN [acc EXCEPT !.warnings = @ + 1]
    ELSE [acc EXCEPT !.hypo_stacks[SuitOf(id)] = RankOf(id),
                     !.good_touch_elim = @ \cup {id},
                     !.found_new_playable = TRUE,
                     !.advances = Append(@, [id |-> id, cards |-> {order}, link |-> FALSE,
                                            unknown |-> acc.unknown_plays])]

\* what the handling of one playable-looking card did to the stacks
Traced(acc, after, order, id) ==
    [after EXCEPT !.trace = Append(@,
        [order |-> order, id |-> id, scan |-> acc.scans,
         before |-> acc.hypo_stacks, after |-> after.hypo_stacks,
         claimed |-> after.good_touch_elim \ acc.good_touch_elim,
         warned |-> after.warnings > acc.warnings])]

\* body of the for loop over state.hands.flat()
ScanCard(this, state, linked_orders, acc, order) ==
    LET card == this.thoughts[order]
    IN  IF \/ ~card.saved
           \/ \E e \in acc.good_touch_elim : CardMatches(card, e, FALSE, FALSE)
           \/ order \in linked_orders
        THEN acc
        ELSE
        LET fakes == fake_wcs(this, state, order)
            diff == [card EXCEPT !.inferred =
                        @ \ {this.waiting_connections[k].inference : k \in fakes}]
        IN  IF /\ MatchesInferences(diff)
               /\ \/ delayed_playable(diff.possible, acc.good_touch_elim, acc.hypo_stacks)
                  \/ delayed_playable(diff.inferred, acc.good_touch_elim, acc.hypo_stacks)
                  \/ (diff.finessed /\ delayed_playable_card(card, acc.good_touch_elim, acc.hypo_stacks))
            THEN LET id == CardIdentity(card, TRUE, FALSE)
                     actual_id == state.deck[order]
                 IN  IF FalseUpdate(this, state, acc, order, id, actual_id)
                     THEN [acc EXCEPT !.skipped = @ \cup {order}]
                     ELSE IF id = NoId
                     THEN Traced(acc, UnknownPlay(this, acc, order), order, id)
                     ELSE Traced(acc, KnownPlay(acc, order, id), order, id)
            ELSE acc

RECURSIVE ScanHands(_, _, _, _, _)
ScanHands(this, state, linked_orders, acc, i) ==
    IF i > Len(state.hands) THEN acc
    ELSE ScanHands(this, state, linked_orders,
                   [ScanCard(this, state, linked_orders, acc, state.hands[i])
                        EXCEPT !.visited = @ + 1], i + 1)

\* while (found_new_playable)
RECURSIVE ScanLoop(_, _, _, _)
ScanLoop(this, state, linked_orders, acc) ==
    IF ~acc.found_new_playable THEN acc
    ELSE IF acc.scans >= ScanFuel THEN [acc EXCEPT !.exhausted = TRUE]
    ELSE ScanLoop(this, state, linked_orders,
                  ScanHands(this, state, linked_orders,
                            [acc EXCEPT !.found_new_playable = FALSE, !.scans = @ + 1], 1))

update_hypo_stacks(this, state) ==
    ScanLoop(this, state, linkedOrders(this, state),
             [hypo_stacks |-> ResetHypoStacks(this, state),
              unknown_plays |-> {},
              good_touch_elim |-> {},
              found_new_playable |-> TRUE,
              scans |-> 0,
              advances |-> <<>>,
              skipped |-> {},
              warnings |-> 0,
              trace |-> <<>>,
              visited |-> 0,
              exhausted |-> FALSE])

\* ------------------------------------------------------------------------
\* variants.js: which cards a clue touches, which clues can be given
\* ------------------------------------------------------------------------
COLOUR == "colour"
RANK == "rank"

\* suit names matching the regular expressions of variantRegexes
Whitish == {"White", "Gray", "Null"}
Rainbowish == {"Rainbow", "Omni"}
Brownish == {"Brown", "Null"}
Pinkish == {"Pink", "Omni"}
Prismish == {"Prism", "Dark Prism"}

Variant(suits) ==
    [suits |-> suits, specialRank |-> 0,
     specialRankAllClueColors |-> FALSE, specialRankNoClueColors |-> FALSE,
     specialRankAllClueRanks |-> FALSE, specialRankNoClueRanks |-> FALSE,
     specialRankDeceptive |-> FALSE, chimneys |-> FALSE, funnels |-> FALSE,
     criticalRank |-> 0, clueRanks |-> 1..MaxRank]

cardTouched(card, variant, clue) ==
    LET suitIndex == SuitOf(card)
        rank == RankOf(card)
        suit == variant.suits[suitIndex]
        value == clue.value
        colourlessCount == Cardinality({x \in Suits :
            variant.suits[x] \in (Rainbowish \cup Whitish \cup Prismish)})
    IN  IF suit \in {"Null", "Dark Null"} THEN FALSE
        ELSE IF suit \in {"Omni", "Dark Omni"} THEN TRUE
        ELSE IF clue.type = COLOUR THEN
            IF suit \in Whitish THEN FALSE
            ELSE IF suit \in Rainbowish THEN TRUE
            ELSE IF suit \in Prismish
                THEN ((rank - 1) % (NumSuits - colourlessCount)) = value
            ELSE IF rank = variant.specialRank /\ variant.specialRankAllClueColors THEN TRUE
            ELSE IF rank = variant.specialRank /\ variant.specialRankNoClueColors THEN FALSE
            ELSE suitIndex = value
        ELSE
            IF suit \in Brownish THEN FALSE
            ELSE IF suit \in Pinkish THEN TRUE
            ELSE IF rank = variant.specialRank /\ variant.specialRankAllClueRanks THEN TRUE
            ELSE IF rank = variant.specialRank /\ variant.specialRankNoClueRanks THEN FALSE
            ELSE IF rank = variant.specialRank /\ variant.specialRankDeceptive
                THEN (suitIndex % 4) + (IF variant.specialRank = 1 THEN 2 ELSE 1) = value
            ELSE IF variant.chimneys THEN rank >= value
            ELSE IF variant.funnels THEN rank <= value
            ELSE rank = value

isCluable(variant, clue) ==
    /\ ~(clue.type = COLOUR /\ variant.suits[clue.value] \in (Whitish \cup Rainbowish))
    /\ ~(clue.type = RANK /\ clue.value \notin variant.clueRanks)

\* colour clues by ascending suit index, then rank clues by ascending rank
AllClues(target) ==
    [i \in 1..(NumSuits + MaxRank) |->
        IF i <= NumSuits THEN [type |-> COLOUR, value |-> i - 1, target |-> target]
        ELSE [type |-> RANK, value |-> i - NumSuits, target |-> target]]

direct_clues(variant, target, card, options) ==
    LET Keep(clue) ==
            /\ IF clue.type = COLOUR THEN ~(options.defined /\ options.excludeColour)
               ELSE ~(options.defined /\ options.excludeRank)
            /\ isCluable(variant, clue)
            /\ cardTouched(card, variant, clue)
    IN  SelectSeq(AllClues(target), Keep)

\* ------------------------------------------------------------------------
\* hanabi-util: trash
\* ------------------------------------------------------------------------
isBasicTrash(state, identity) ==
    \/ RankOf(identity) <= state.play_stacks[SuitOf(identity)]
    \/ RankOf(identity) > state.max_ranks[SuitOf(identity)]

\* another saved (clued) card of a hand is known or assumed to be the identity
isSaved(hand, identity, order) ==
    \E i \in 1..Len(hand) :
        /\ hand[i].order # order
        /\ hand[i].clued
        /\ ActualMatches(hand[i].id, identity, TRUE)

isTrash(state, hand, identity, order) ==
    isBasicTrash(state, identity) \/ isSaved(hand, identity, order)

\* mutant: the distance to the top of the stack
playableAwayFromTop(state, identity) ==
    RankOf(identity) - state.play_stacks[SuitOf(identity)]
\* "0 means it is currently playable"
playableAway(state, identity) ==
    RankOf(identity) - (state.play_stacks[SuitOf(identity)] + 1)

\* ------------------------------------------------------------------------
\* Focus of a clue (hanabi-logic determine_focus, beforeClue)
\* ------------------------------------------------------------------------
Touched(hand, variant, clue) ==
    {i \in 1..Len(hand) : cardTouched(hand[i].id, variant, clue)}

\* chop: the rightmost unclued card
ChopIndex(hand) ==
    LET unclued == {i \in 1..Len(hand) : ~hand[i].clued}
    IN  IF unclued = {} THEN 0 ELSE CHOOSE i \in unclued : \A j \in unclued : j <= i

\* leftmost newly touched card, else leftmost touched card
determine_focus(hand, touched) ==
    LET new == {i \in touched : ~hand[i].clued}
        pool == IF new # {} THEN new ELSE touched
        f == CHOOSE i \in pool : \A j \in pool : i <= j
    IN  [focused_card |-> hand[f].order, chop |-> f = ChopIndex(hand)]

\* ------------------------------------------------------------------------
\* evaluate_clue and determine_clue
\* ------------------------------------------------------------------------
NoClue == [type |-> "none", value |-> -1, target |-> -1]

OtherId(identity) == IF identity = r1 THEN r2 ELSE r1

\* the common belief about a card in the simulated game
HypoThought(kind, identity) ==
    IF kind = "known" THEN
        [possible |-> {identity}, inferred |-> {identity}, id |-> NoId,
         reset |-> FALSE, chop_moved |-> FALSE]
    ELSE IF kind = "wrong" THEN
        [possible |-> InputIds, inferred |-> {OtherId(identity)}, id |-> identity,
         reset |-> FALSE, chop_moved |-> FALSE]
    ELSE IF kind = "reset" THEN
        [possible |-> InputIds, inferred |-> InputIds, id |-> NoId,
         reset |-> TRUE, chop_moved |-> FALSE]
    ELSE IF kind = "cm_reset" THEN
        [possible |-> InputIds, inferred |-> InputIds, id |-> NoId,
         reset |-> TRUE, chop_moved |-> TRUE]
    ELSE
        [possible |-> InputIds, inferred |-> InputIds, id |-> NoId,
         reset |-> FALSE, chop_moved |-> FALSE]

\* mutant: only a reset focus is rejected
FocusIncorrectResetOnly(card) == card.reset
\* "The focused card must not have been reset and must match inferences"
FocusIncorrect(card) == card.reset \/ ~MatchesInferences(card)

\* the hand after the clue marked the touched cards
CluedHand(hand, touched) ==
    [i \in 1..Len(hand) |-> [hand[i] EXCEPT !.clued = @ \/ i \in touched]]

\* "For non-focused cards"
OtherIncorrect(state, hand, touched, c, card, bad_touch_cards) ==
    ~(  \/ /\ ~card.reset
           /\ \/ CardIdentity(card, FALSE, FALSE) = NoId
              \/ Cardinality(card.possible) = 1
              \/ CardMatches(card, c.id, FALSE, FALSE)
        \/ c.old_bad
        \/ c.clued /\ isTrash(state, hand, c.id, -1)
        \/ card.chop_moved
        \/ c.order \in bad_touch_cards
        \/ \A id \in card.possible : isTrash(state, CluedHand(hand, touched), id, c.order))

\* TRUE when the simulated clue has the right interpretation
evaluate_clue(state, hand, touched, target_card, bad_touch_cards, sim) ==
    ~\E i \in 1..Len(hand) :
        LET c == hand[i]
        IN  IF c.order = target_card
            THEN FocusIncorrect(HypoThought(sim.focus, c.id))
            ELSE OtherIncorrect(state, hand, touched, c, HypoThought(sim.other, c.id), bad_touch_cards)

\* mutant: the last entry with the greatest value
maxOnLast(results) ==
    LET best == CHOOSE i \in 1..Len(results) :
            /\ \A j \in 1..Len(results) : results[j].value <= results[i].value
            /\ \A j \in (i + 1)..Len(results) : results[j].value < results[i].value
    IN  results[best]
\* Utils.maxOn: the first entry with the greatest value
maxOn(results) ==
    LET best == CHOOSE i \in 1..Len(results) :
            /\ \A j \in 1..Len(results) : results[j].value <= results[i].value
            /\ \A j \in 1..(i - 1) : results[j].value < results[i].value
    IN  results[best]

\* mutant: a candidate that focuses another card is kept
WrongFocusAny(focus, target_card) == FALSE
\* "focuses ... instead of ..., ignoring"
WrongFocus(focus, target_card) == focus.focused_card # target_card

\* mutant: the new chop's value is kept whenever the focus is on chop
KeepsRemainderOnChop(chop, safe, tokens) == chop
\* "We only need to check remainder if this clue focuses chop"
KeepsRemainder(chop, safe, tokens) == chop /\ (~safe \/ tokens <= 2)

\* one iteration of the loop over possible_clues
TryClue(state, variant, hand, target_card, options, sims, acc, clue) ==
    LET touched == Touched(hand, variant, clue)
        focus == determine_focus(hand, touched)
        sim == sims[clue]
        bad_touch_cards == {hand[i].order : i \in {j \in touched :
            ~hand[j].clued /\ isTrash(state, hand, hand[j].id, hand[j].order)}}
    IN  IF acc.thrown \/ WrongFocus(focus, target_card) THEN acc
        ELSE IF ~options.defined THEN [acc EXCEPT !.thrown = TRUE]
        ELSE IF ~options.save /\ ~sim.safe THEN acc
        ELSE IF ~evaluate_clue(state, hand, touched, target_card, bad_touch_cards, sim)
            THEN [acc EXCEPT !.evaluated = Append(@, clue)]
        ELSE [acc EXCEPT
                !.evaluated = Append(@, clue),
                !.results = Append(@, [clue |-> clue, value |-> sim.value, chop |-> focus.chop,
                    remainder |-> IF KeepsRemainder(focus.chop, sim.safe, state.clue_tokens)
                                  THEN sim.remainder ELSE 0])]

RECURSIVE TryClues(_, _, _, _, _, _, _, _, _)
TryClues(state, variant, hand, target_card, options, sims, possible_clues, acc, i) ==
    IF i > Len(possible_clues) THEN acc
    ELSE TryClues(state, variant, hand, target_card, options, sims, possible_clues,
                  TryClue(state, variant, hand, target_card, options, sims, acc, possible_clues[i]),
                  i + 1)

CardOf(hand, order) == hand[CHOOSE i \in 1..Len(hand) : hand[i].order = order]

determine_clue(state, variant, hand, target, target_card, options, sims) ==
    LET possible_clues == direct_clues(variant, target, CardOf(hand, target_card).id, options)
        acc == TryClues(state, variant, hand, target_card, options, sims, possible_clues,
                        [results |-> <<>>, evaluated |-> <<>>, thrown |-> FALSE], 1)
    IN  [clue |-> IF acc.thrown \/ acc.results = <<>> THEN NoClue ELSE maxOn(acc.results).clue,
         result |-> IF acc.thrown \/ acc.results = <<>> THEN [value |-> 0, remainder |-> 0]
                    ELSE [value |-> maxOn(acc.results).value,
                          remainder |-> maxOn(acc.results).remainder],
         results |-> acc.results, evaluated |-> acc.evaluated, thrown |-> acc.thrown,
         possible_clues |-> possible_clues]

\* ------------------------------------------------------------------------
\* State of the model
\* ------------------------------------------------------------------------
VARIABLES
    play_stacks, discard_stacks, strikes,       \* authoritative state
    deck,                                       \* state.deck: visible identity per order
    playerIndex, thoughts, links, waiting_connections,
    hypo_stacks, unknown_plays,                 \* the perspective (Player)
    calls, prev_hypo, last_run,                 \* bookkeeping of update_hypo_stacks calls
    variant, hand, clue_tokens,                 \* the clue target's hand as the giver sees it
    dc_target_card, dc_options, dc_sims, dc_out, \* the last determine_clue call
    copies, copy_log,                           \* live game states and the last minimalCopy
    players, heap, writer, before,              \* Player objects and the collections they hold
    game, discard_log,                          \* the game seen by interpret_discard, its last call
    actionList, notes, rewinds, locked_shifts,  \* the action log and what createBlank carries over
    rewind_log,                                 \* the last rewind
    fp_in, fp_out,                              \* the last find_focus_possible call
    cv_in, cv_out,                              \* the last cardValue call
    replay,                                     \* the replay driver and what it delivered
    ta_in, ta_out                               \* the last take_action call

stateVars == <<play_stacks, discard_stacks, strikes>>
hypoVars == <<deck, playerIndex, thoughts, links, waiting_connections,
              hypo_stacks, unknown_plays, calls, prev_hypo, last_run>>
clueVars == <<variant, hand, clue_tokens, dc_target_card, dc_options, dc_sims, dc_out>>
copyVars == <<copies, copy_log>>
cloneVars == <<players, heap, writer, before>>
discardVars == <<game, discard_log>>
rewindVars == <<actionList, notes, rewinds, locked_shifts, rewind_log>>
focusVars == <<fp_in, fp_out>>
valueVars == <<cv_in, cv_out>>
replayVars == <<replay>>
actionVars == <<ta_in, ta_out>>
vars == <<stateVars, hypoVars, clueVars, copyVars, cloneVars, discardVars, rewindVars,
          focusVars, valueVars, replayVars, actionVars>>

\* ------------------------------------------------------------------------
\* Inputs of the hypothetical-stack specification
\* ------------------------------------------------------------------------
Belief(possible, inferred, saved, finessed) ==
    [possible |-> possible, inferred |-> inferred, saved |-> saved, finessed |-> finessed]

ThoughtChoices ==
    { Belief(InputIds, InputIds, FALSE, FALSE),     \* untouched card
      Belief({r1}, {r1}, TRUE, FALSE),              \* clued, known r1
      Belief({r2}, {r2}, TRUE, FALSE),              \* clued, known r2
      Belief({r1, b1}, {r1, b1}, TRUE, FALSE),      \* clued 1, identity open
      Belief(InputIds, {r1}, TRUE, FALSE),          \* clued, inferred r1
      Belief({r1, b1}, {r1}, TRUE, FALSE),          \* clued 1, inferred r1
      Belief(InputIds, {r2}, TRUE, TRUE) }          \* finessed as r2

\* our own card is either untouched or a known r1
OwnThoughtChoices ==
    { Belief(InputIds, InputIds, FALSE, FALSE), Belief({r1}, {r1}, TRUE, FALSE) }

LinkChoices ==
    { <<>>,
      <<[cards |-> {1, 2}, identities |-> <<r1>>, promised |-> TRUE]>>,
      <<[cards |-> {1, 2}, identities |-> <<r2>>, promised |-> TRUE]>> }

Connection(order) == [card |-> order, hidden |-> FALSE]

WaitingChoices ==
    { <<>>,
      <<[focused_card |-> 2, inference |-> r2, fake |-> FALSE, conn_index |-> 0,
         connections |-> <<Connection(1)>>, action_index |-> 1]>>,
      <<[focused_card |-> 2, inference |-> r2, fake |-> TRUE, conn_index |-> 0,
         connections |-> <<Connection(1)>>, action_index |-> 1]>> }

\* order 0 is in our own hand (identity withheld), orders 1 and 2 are visible
Decks ==
    { [o \in Orders |-> IF o = 0 THEN NoId ELSE d[o]] :
        d \in {<<r1, r2>>, <<b1, r2>>, <<r1, r1>>} }

StackChoices == {ZeroStacks, [ZeroStacks EXCEPT ![0] = 1]}

\* the identity a perspective sees on a card: common (-1) sees none
SeenId(p, d, order) == IF p = -1 THEN NoId ELSE d[order]

WithId(belief, id) ==
    [possible |-> belief.possible, inferred |-> belief.inferred, saved |-> belief.saved,
     finessed |-> belief.finessed, id |-> id]

ThisPlayer ==
    [playerIndex |-> playerIndex, thoughts |-> thoughts, links |-> links,
     waiting_connections |-> waiting_connections,
     hypo_stacks |-> hypo_stacks, unknown_plays |-> unknown_plays]

ThisState ==
    [play_stacks |-> play_stacks, discard_stacks |-> discard_stacks,
     deck |-> deck, hands |-> HandsFlat]

NoRun == [scans |-> 0, advances |-> <<>>, skipped |-> {}, warnings |-> 0,
          trace |-> <<>>, visited |-> 0, exhausted |-> FALSE, common |-> FALSE]

StateIdle ==
    /\ play_stacks = ZeroStacks
    /\ discard_stacks = ZeroDiscards
    /\ strikes = 0

HypoIdle ==
    /\ deck = [o \in Orders |-> NoId]
    /\ playerIndex = -1
    /\ thoughts = [o \in Orders |-> WithId(Belief(InputIds, InputIds, FALSE, FALSE), NoId)]
    /\ links = <<>>
    /\ waiting_connections = <<>>
    /\ hypo_stacks = ZeroStacks
    /\ unknown_plays = {}
    /\ calls = 0
    /\ prev_hypo = [hypo_stacks |-> ZeroStacks, unknown_plays |-> {}]
    /\ last_run = NoRun

\* ------------------------------------------------------------------------
\* Discard interpretation: interpret_discard
\* ------------------------------------------------------------------------
MaxWaiting == 3

Conn(order, hidden, reacting) == [card |-> order, hidden |-> hidden, reacting |-> reacting]

WC(connections, conn_index, action_index) ==
    [connections |-> connections, conn_index |-> conn_index, action_index |-> action_index]

\* state.hands.findIndex(hand => hand.findOrder(order))
HolderOf(g, order) ==
    IF \E p \in DOMAIN g.hands : order \in g.hands[p]
    THEN CHOOSE p \in DOMAIN g.hands :
            /\ order \in g.hands[p]
            /\ \A q \in DOMAIN g.hands : order \in g.hands[q] => p <= q
    ELSE -1

\* the new max rank is one less than the rank whose copies are all discarded
MaxRanksAfter(g, identity, discards) ==
    IF /\ discards[SuitOf(identity)][RankOf(identity)] = CardCountNormal(RankOf(identity))
       /\ g.max_ranks[SuitOf(identity)] > RankOf(identity) - 1
    THEN [g.max_ranks EXCEPT ![SuitOf(identity)] = RankOf(identity) - 1]
    ELSE g.max_ranks

\* Basics.onDiscard: the card leaves the hand for the discard pile
onDiscard(g, action) ==
    LET discards == [g.discard_stacks EXCEPT
                        ![SuitOf(action.identity)][RankOf(action.identity)] = @ + 1]
    IN  [g EXCEPT
            !.hands = [p \in DOMAIN g.hands |-> g.hands[p] \ {action.order}],
            !.discard_stacks = discards,
            !.max_ranks = MaxRanksAfter(g, action.identity, discards),
            !.strikes = IF action.failed THEN @ + 1 ELSE @,
            !.clue_tokens = IF action.failed THEN @ ELSE IF @ < 8 THEN @ + 1 ELSE 8]

\* connections.findIndex((conn, index) => index >= conn_index && conn.card.order === order)
FindConn(wc, order) ==
    LET hits == {i \in 0..(Len(wc.connections) - 1) :
                    i >= wc.conn_index /\ wc.connections[i + 1].card = order}
    IN  IF hits = {} THEN -1 ELSE CHOOSE i \in hits : \A j \in hits : i <= j

\* "No other waiting connections exist for this"
NoOtherPending(wcs, i, to_remove) ==
    ~\E j \in 1..Len(wcs) : wcs[j].action_index = wcs[i].action_index /\ j \notin to_remove

\* the scan over common.waiting_connections, up to the first one that is handled
RECURSIVE ScanWaiting(_, _, _, _)
ScanWaiting(wcs, order, i, to_remove) ==
    IF i > Len(wcs) THEN [hit |-> 0, to_remove |-> to_remove]
    ELSE IF FindConn(wcs[i], order) = -1 THEN ScanWaiting(wcs, order, i + 1, to_remove)
    ELSE LET removing == to_remove \cup {i}
         IN  IF NoOtherPending(wcs, i, removing)
             THEN [hit |-> i, to_remove |-> removing]
             ELSE ScanWaiting(wcs, order, i + 1, removing)

\* card.clued && rank > play_stacks[suitIndex] && rank <= max_ranks[suitIndex]
UsefulDiscard(g, action) ==
    /\ action.clued
    /\ RankOf(action.identity) > g.play_stacks[SuitOf(action.identity)]
    /\ RankOf(action.identity) <= g.max_ranks[SuitOf(action.identity)]

\* mutant: hidden connections are counted too
RealConnectsAll(wc, dc_conn_index) ==
    Cardinality({i \in 0..(Len(wc.connections) - 1) : i < dc_conn_index})
\* connections.filter((conn, index) => index < dc_conn_index && !conn.hidden).length
RealConnects(wc, dc_conn_index) ==
    Cardinality({i \in 0..(Len(wc.connections) - 1) :
                    i < dc_conn_index /\ ~wc.connections[i + 1].hidden})

RECURSIVE FilterSeq(_, _, _)
FilterSeq(seq, i, drop) ==
    IF i > Len(seq) THEN <<>>
    ELSE (IF i \in drop THEN <<>> ELSE <<seq[i]>>) \o FilterSeq(seq, i + 1, drop)

NoRewind == [called |-> FALSE, action_index |-> -1, type |-> "none", conn_index |-> -1,
             order |-> -1, playerIndex |-> -1, identity |-> NoId, finessed |-> FALSE]

NoThought == [rewinded |-> FALSE, matches |-> TRUE, finessed |-> FALSE, trash |-> FALSE]

NoDiscard == [called |-> FALSE, action |-> [order |-> -1], sarcastics |-> <<>>,
              before |-> <<>>, hit |-> 0, rewritten |-> FALSE, rewind |-> NoRewind,
              tail |-> "none", thoughts |-> NoThought]

\* mutant: a bombed card that is known trash is not identified
NeedsIdentifyUnlessTrash(action, th) ==
    ~th.rewinded /\ ~th.trash /\ (action.failed \/ ~th.matches)
\* !thoughts.rewinded && (failed || (!thoughts.matches_inferences() && !isTrash(...)))
NeedsIdentify(action, th) ==
    ~th.rewinded /\ (action.failed \/ (~th.matches /\ ~th.trash))

\* interpret_discard(game, action, card): the game afterwards and what the call did
interpret_discard(g, action, sarcastics, th) ==
    LET g1 == onDiscard(g, action)
        wcs == g1.waiting_connections
        scan == ScanWaiting(wcs, action.order, 1, {})
        log == [called |-> TRUE, action |-> action, sarcastics |-> sarcastics,
                before |-> wcs, hit |-> scan.hit, rewritten |-> FALSE, rewind |-> NoRewind,
                tail |-> "none", thoughts |-> th]
    IN  IF scan.hit # 0
        THEN LET wc == wcs[scan.hit]
                 dc_conn_index == FindConn(wc, action.order)
             IN  IF UsefulDiscard(g1, action) /\ ~action.failed /\ Len(sarcastics) = 1
                 THEN [game |-> [g1 EXCEPT !.waiting_connections[scan.hit].connections[dc_conn_index + 1] =
                                    [@ EXCEPT !.reacting = HolderOf(g1, sarcastics[1]),
                                              !.card = sarcastics[1]]],
                       log |-> [log EXCEPT !.rewritten = TRUE]]
                 ELSE [game |-> g1,
                       log |-> [log EXCEPT !.rewind =
                                    [called |-> TRUE, action_index |-> wc.action_index,
                                     type |-> "ignore",
                                     conn_index |-> RealConnects(wc, dc_conn_index),
                                     order |-> action.order, playerIndex |-> -1,
                                     identity |-> NoId, finessed |-> FALSE]]]
        ELSE LET g2 == [g1 EXCEPT
                            !.waiting_connections = FilterSeq(wcs, 1, scan.to_remove),
                            !.early_game = @ /\ ~(~action.failed /\ ~action.clued)]
             IN  IF NeedsIdentify(action, th)
                 THEN [game |-> g2,
                       log |-> [log EXCEPT !.rewind =
                                    [called |-> TRUE, action_index |-> action.drawn_index,
                                     type |-> "identify", conn_index |-> -1,
                                     order |-> action.order,
                                     playerIndex |-> action.playerIndex,
                                     identity |-> action.identity,
                                     finessed |-> th.finessed]]]
                 ELSE [game |-> g2,
                       log |-> [log EXCEPT !.tail =
                                    IF ~UsefulDiscard(g2, action) THEN "team_elim"
                                    ELSE IF action.failed THEN "undo_hypo_stacks"
                                    ELSE "interpret_sarcastic"]]

DiscardIdle ==
    /\ game = [play_stacks |-> ZeroStacks, discard_stacks |-> ZeroDiscards,
               max_ranks |-> [s \in Suits |-> MaxRank], strikes |-> 0, clue_tokens |-> 0,
               hands |-> <<{}>>, waiting_connections |-> <<>>, early_game |-> FALSE]
    /\ discard_log = NoDiscard

\* ------------------------------------------------------------------------
\* Focus possibilities: find_colour_focus, find_rank_focus, find_focus_possible
\* ------------------------------------------------------------------------
\* suit names matching the regular expression variantRegexes.dark
Darkish == {"Black", "Gray", "Cocoa", "Dark Rainbow", "Dark Pink", "Dark Omni", "Dark Null"}

\* mutant: every suit and rank has the copies of a normal suit
cardCountPlain(v, identity) == CardCountNormal(RankOf(identity))
cardCount(v, identity) ==
    IF v.suits[SuitOf(identity)] \in Darkish THEN 1
    ELSE IF v.criticalRank = RankOf(identity) THEN 1
    ELSE CardCountNormal(RankOf(identity))

isCritical(state, identity) ==
    state.discard_stacks[SuitOf(identity)][RankOf(identity)] = cardCount(state.variant, identity) - 1

NoConn == [type |-> "none", card |-> -1, newly_clued |-> FALSE, open |-> FALSE]

Connecting(type, card, newly_clued, open) ==
    [type |-> type, card |-> card, newly_clued |-> newly_clued, open |-> open]

\* find_connecting(hypo_state, giver, target, suitIndex, rank, already_connected):
\* the card that will play the identity before the focused card does
find_connecting(fin, suitIndex, rank) ==
    LET i == rank - fin.state.play_stacks[suitIndex]
    IN  IF i >= 1 /\ i <= Len(fin.chains[suitIndex]) /\ rank <= MaxRank
        THEN fin.chains[suitIndex][i] ELSE NoConn

FocusEntry(suitIndex, rank, save, connections) ==
    [suitIndex |-> suitIndex, rank |-> rank, save |-> save, connections |-> connections]

\* "blocked connection - focused card could be" the identity itself
Blocked(fin, suitIndex, rank, connecting) ==
    /\ connecting.type = "known"
    /\ connecting.newly_clued
    /\ connecting.open
    /\ <<suitIndex, rank>> \in fin.focus_inferred

\* mutant: a finesse is connected to without being marked
MarkFinessedNever(finessed, connecting) == finessed
\* "card.finessed = true" for a connecting card of type 'finesse'
MarkFinessed(finessed, connecting) ==
    IF connecting.type = "finesse" THEN finessed \cup {connecting.card} ELSE finessed

\* mutant: the hypothesis is the state object itself
objCloneSame(obj) == obj
\* "const hypo_state = Utils.objClone(state)": a new object, named by who holds it
objClone(obj) == "hypo_state"

\* "hypo_state.play_stacks[suitIndex]++", once per connecting card followed
Advanced(suitIndex, n) == [x \in Suits |-> IF x = suitIndex THEN n ELSE 0]

\* the while loop of find_colour_focus
RECURSIVE ColourLoop(_, _, _, _, _, _)
ColourLoop(fin, suitIndex, next_playable_rank, connections, focus_possible, finessed) ==
    LET connecting == find_connecting(fin, suitIndex, next_playable_rank)
        done == [next_playable_rank |-> next_playable_rank, connections |-> connections,
                 focus_possible |-> focus_possible, finessed |-> finessed]
    IN  IF connecting = NoConn \/ ~(next_playable_rank < 5) THEN done
        ELSE IF Blocked(fin, suitIndex, next_playable_rank, connecting) THEN done
        ELSE ColourLoop(fin, suitIndex, next_playable_rank + 1,
                        Append(connections, connecting),
                        IF connecting.type = "finesse"
                        THEN Append(focus_possible,
                                    FocusEntry(suitIndex, next_playable_rank, FALSE, connections))
                        ELSE focus_possible,
                        MarkFinessed(finessed, connecting))

\* "Save clue on chop (5 save cannot be done with number)"
RECURSIVE ColourSaves(_, _, _)
ColourSaves(fin, suitIndex, rank) ==
    IF ~(rank < 5) THEN <<>>
    ELSE (IF /\ ~(/\ fin.state.variant.suits[suitIndex] = "Black"
                  /\ rank \in {2, 5}
                  /\ fin.fill_ins < 2)
             /\ isCritical(fin.state, <<suitIndex, rank>>)
          THEN <<FocusEntry(suitIndex, rank, TRUE, <<>>)>>
          ELSE <<>>) \o ColourSaves(fin, suitIndex, rank + 1)

find_colour_focus(fin, suitIndex) ==
    LET loop == ColourLoop(fin, suitIndex, fin.state.play_stacks[suitIndex] + 1,
                           <<>>, <<>>, {})
        plays == Append(loop.focus_possible,
                        FocusEntry(suitIndex, loop.next_playable_rank, FALSE, loop.connections))
    IN  [focus_possible |-> plays \o (IF fin.chop
                                      THEN ColourSaves(fin, suitIndex, loop.next_playable_rank + 1)
                                      ELSE <<>>),
         finessed |-> loop.finessed,
         advanced |-> Advanced(suitIndex, Len(loop.connections))]

\* the while loop of find_rank_focus
RECURSIVE RankLoop(_, _, _, _, _, _)
RankLoop(fin, suitIndex, rank, stack_rank, connections, finessed) ==
    LET connecting == find_connecting(fin, suitIndex, stack_rank)
    IN  IF stack_rank = rank \/ connecting = NoConn
        THEN [stack_rank |-> stack_rank, connections |-> connections, finessed |-> finessed]
        ELSE RankLoop(fin, suitIndex, rank, stack_rank + 1, Append(connections, connecting),
                      MarkFinessed(finessed, connecting))

\* "Save clue on chop": critical save or 2 save
RankSave(fin, suitIndex, rank) ==
    /\ fin.chop
    /\ rank - (fin.state.play_stacks[suitIndex] + 1) # 0
    /\ ~(fin.state.variant.suits[suitIndex] = "Black" /\ rank \in {3, 4})
    /\ \/ isCritical(fin.state, <<suitIndex, rank>>)
       \/ rank = 2 /\ suitIndex \notin fin.seen2

RECURSIVE RankSuits(_, _, _)
RankSuits(fin, rank, suitIndex) ==
    IF suitIndex >= NumSuits
    THEN [focus_possible |-> <<>>, finessed |-> {}, advanced |-> ZeroStacks]
    ELSE LET stack_rank == fin.state.play_stacks[suitIndex] + 1
             loop == IF rank > stack_rank
                     THEN RankLoop(fin, suitIndex, rank, stack_rank, <<>>, {})
                     ELSE [stack_rank |-> stack_rank, connections |-> <<>>, finessed |-> {}]
             play == IF rank = loop.stack_rank
                     THEN <<FocusEntry(suitIndex, rank, FALSE, loop.connections)>>
                     ELSE <<>>
             save == IF RankSave(fin, suitIndex, rank)
                     THEN <<FocusEntry(suitIndex, rank, TRUE, <<>>)>>
                     ELSE <<>>
             rest == RankSuits(fin, rank, suitIndex + 1)
         IN  [focus_possible |-> play \o save \o rest.focus_possible,
              finessed |-> loop.finessed \cup rest.finessed,
              advanced |-> [x \in Suits |->
                               IF x = suitIndex THEN Len(loop.connections)
                               ELSE rest.advanced[x]]]

find_rank_focus(fin, rank) == RankSuits(fin, rank, 0)

\* state.suits.indexOf(name), -1 when the variant has no such suit
SuitIndexOf(v, name) ==
    IF \E x \in Suits : v.suits[x] = name
    THEN CHOOSE x \in Suits : v.suits[x] = name /\ \A y \in Suits : v.suits[y] = name => x <= y
    ELSE -1

NoFocus == [focus_possible |-> <<>>, finessed |-> {}, advanced |-> ZeroStacks]

\* the play stacks and finessed flags of the object `obj` after the writes made
\* through the object `written`
Written(obj, written, stacks, marked, advanced) ==
    IF written = obj
    THEN [play_stacks |-> [x \in Suits |-> stacks[x] + advanced[x]],
          finessed |-> marked]
    ELSE [play_stacks |-> stacks, finessed |-> {}]

\* "Remove earlier duplicates (since save overrides play)"
LaterDuplicate(focus_possible, i) ==
    \E j \in 1..Len(focus_possible) :
        /\ focus_possible[i].suitIndex = focus_possible[j].suitIndex
        /\ focus_possible[i].rank = focus_possible[j].rank
        /\ i < j

find_focus_possible(fin) ==
    LET v == fin.state.variant
        rainbow == IF fin.clue.type = COLOUR /\ SuitIndexOf(v, "Rainbow") # -1
                   THEN find_colour_focus(fin, SuitIndexOf(v, "Rainbow")) ELSE NoFocus
        main == IF fin.clue.type = COLOUR THEN find_colour_focus(fin, fin.clue.value)
                ELSE find_rank_focus(fin, fin.clue.value)
        omni == IF SuitIndexOf(v, "Omni") # -1
                THEN find_colour_focus(fin, SuitIndexOf(v, "Omni")) ELSE NoFocus
        all == rainbow.focus_possible \o main.focus_possible \o omni.focus_possible
        finessed == rainbow.finessed \cup main.finessed \cup omni.finessed
        advanced == [x \in Suits |->
                        rainbow.advanced[x] + main.advanced[x] + omni.advanced[x]]
        hypo_state == objClone("state")
    IN  [generated |-> all,
         state |-> Written("state", hypo_state, fin.state.play_stacks, finessed, advanced),
         hypo_state |-> Written("hypo_state", "hypo_state", fin.state.play_stacks,
                                finessed, advanced),
         focus_possible |-> FilterSeq(all, 1, {i \in 1..Len(all) : LaterDuplicate(all, i)}),
         finessed |-> rainbow.finessed \cup main.finessed \cup omni.finessed]

NoFocusCall ==
    [called |-> FALSE, generated |-> <<>>, focus_possible |-> <<>>, finessed |-> {},
     state |-> [play_stacks |-> ZeroStacks, finessed |-> {}],
     hypo_state |-> [play_stacks |-> ZeroStacks, finessed |-> {}]]

NoFocusInput ==
    [state |-> [play_stacks |-> ZeroStacks, discard_stacks |-> ZeroDiscards,
                variant |-> Variant([x \in Suits |-> "Red"])],
     clue |-> NoClue, chop |-> FALSE, fill_ins |-> 0, seen2 |-> {}, focus_inferred |-> {},
     chains |-> [x \in Suits |-> <<>>]]

FocusIdle ==
    /\ fp_in = NoFocusInput
    /\ fp_out = NoFocusCall

\* ------------------------------------------------------------------------
\* hanabi-util: the value of a card
\* ------------------------------------------------------------------------
\* "Returns whether a card is a unique 2 on the board, according to us."
unique2(state, card) ==
    /\ RankOf(card) = 2
    /\ state.play_stacks[SuitOf(card)] < 2
    /\ Cardinality(visibleFind(state, card)) = 1
    /\ ~\E o \in state.ourHand : state.deck[o] = card

\* cardValue(state, card, order) for a card of known identity
cardValue(state, card, order) ==
    IF isTrash(state, state.cards, card, order) \/ Cardinality(visibleFind(state, card)) > 1
    THEN 0
    ELSE IF isCritical(state, card) THEN 5
    ELSE IF unique2(state, card) THEN 4
    ELSE 5 - (RankOf(card) - state.hypo_stacks[SuitOf(card)])

ValueSuits == {0, 1, 2}

ValueVariant == Variant([x \in ValueSuits |-> <<"Red", "Green", "Blue">>[x + 1]])

\* a plain variant, one with a dark suit, one with a critical rank
ValueVariants ==
    { ValueVariant,
      Variant([x \in ValueSuits |-> <<"Red", "Black", "Blue">>[x + 1]]),
      [ValueVariant EXCEPT !.criticalRank = 4] }

ValueStacks ==
    { [x \in ValueSuits |-> IF x = 0 THEN n ELSE 0] : n \in {0, 1, 3} }

\* nothing discarded; one copy of the ranks 1 to 4 of every suit discarded;
\* both copies of the first suit's rank 3 discarded; two copies of the first
\* suit's rank 1 discarded
ValueDiscards ==
    { [x \in ValueSuits |-> [r \in 1..MaxRank |-> 0]],
      [x \in ValueSuits |-> [r \in 1..MaxRank |-> IF r < MaxRank THEN 1 ELSE 0]],
      [x \in ValueSuits |-> [r \in 1..MaxRank |-> IF x = 0 /\ r = 3 THEN 2 ELSE 0]],
      [x \in ValueSuits |-> [r \in 1..MaxRank |-> IF x = 0 /\ r = 1 THEN 2 ELSE 0]] }

\* state.max_ranks: the highest rank of a suit with no rank below it lost
MaxRankOf(v, discards, suitIndex) ==
    LET lost == {r \in 1..MaxRank : discards[suitIndex][r] = cardCount(v, <<suitIndex, r>>)}
    IN  IF lost = {} THEN MaxRank
        ELSE (CHOOSE r \in lost : \A q \in lost : r <= q) - 1

ValueCards == {<<0, 1>>, <<0, 2>>, <<0, 3>>, <<0, 4>>, <<0, 5>>, <<1, 2>>}

NoValue == [called |-> FALSE, value |-> 0, basic_trash |-> FALSE, away |-> 0,
            critical |-> FALSE]

NoValueInput ==
    [state |-> [play_stacks |-> [x \in ValueSuits |-> 0],
                hypo_stacks |-> [x \in ValueSuits |-> 0],
                max_ranks |-> [x \in ValueSuits |-> MaxRank],
                discard_stacks |-> [x \in ValueSuits |-> [r \in 1..MaxRank |-> 0]],
                variant |-> ValueVariant,
                deck |-> [o \in Orders |-> NoId], cards |-> <<>>, ourHand |-> {}],
     card |-> NoId, order |-> -1, promised |-> FALSE]

ValueIdle ==
    /\ cv_in = NoValueInput
    /\ cv_out = NoValue

\* ------------------------------------------------------------------------
\* take_action: the command sent on the agent's turn
\* ------------------------------------------------------------------------
\* "Utils.sendCmd('action', { tableID, type, target, value })"
Command(type, target, value) == [type |-> type, target |-> target, value |-> value]

Sent(command) == [sent |-> <<command>>, thrown |-> FALSE]

\* "(state.ourPlayerIndex + i) % state.numPlayers"
TargetAt(tin, i) == (tin.ourPlayerIndex + i) % tin.numPlayers

\* "for (let i = 1; i < state.numPlayers; i++)": the first i whose target is
\* one of the players passing the test, 0 when none is
FirstTarget(tin, targets) ==
    LET passing == {i \in 1..(tin.numPlayers - 1) : TargetAt(tin, i) \in targets}
    IN  IF passing = {} THEN 0 ELSE CHOOSE i \in passing : \A j \in passing : i <= j

\* mutant: a clue is considered with any number of clue tokens
CanClueAlways(tin) == TRUE
\* "if (state.clue_tokens > 0)"
CanClue(tin) == tin.clue_tokens > 0

\* mutant: a player who can be given a play clue is saved at once as well
NeedsUrgentSaveAnyPlay(tin, target) ==
    /\ tin.save_clues[target] # NoClue
    /\ tin.playables[target] = 0
\* "They require a save clue and cannot be given a play clue"
NeedsUrgentSave(tin, target) ==
    /\ tin.save_clues[target] # NoClue
    /\ tin.playables[target] = 0
    /\ Len(tin.play_clues[target]) = 0

\* "They require a save clue and can be given a play clue"
NeedsDistractedSave(tin, target) ==
    /\ tin.save_clues[target] # NoClue
    /\ tin.playables[target] = 0
    /\ Len(tin.play_clues[target]) > 0

HasPlayClue(tin, target) == Len(tin.play_clues[target]) > 0

\* "Determine if any cards are clued duplicates": the first clued card of the
\* hand all of whose possibilities are clued elsewhere, -1 when there is none
FirstDuplicate(cards) ==
    LET dups == {i \in 1..Len(cards) : cards[i].clued /\ cards[i].all_duplicates}
    IN  IF dups = {} THEN -1
        ELSE cards[CHOOSE i \in dups : \A j \in dups : i <= j].order

\* find_chop(hand): the index of the oldest card without a clue, -1 when every
\* card is clued (indices from 0)
find_chop(cards) ==
    LET unclued == {i \in 1..Len(cards) : ~cards[i].clued}
    IN  IF unclued = {} THEN -1
        ELSE (CHOOSE i \in unclued : \A j \in unclued : i >= j) - 1

\* take_action from "Then, look for playables or trash in own hand" on
OwnTurn(tin, rnd) ==
    LET dup == FirstDuplicate(tin.hand)
        trash_cards == IF dup # -1 THEN <<dup>> \o tin.trash_cards ELSE tin.trash_cards
        playable_cards == SelectSeq(tin.own_playables, LAMBDA o : o # dup)
        play_target == FirstTarget(tin, {p \in 0..(tin.numPlayers - 1) : HasPlayClue(tin, p)})
        other == (tin.ourPlayerIndex + 1) % 2
        chopIndex == find_chop(tin.hand)
    IN  IF Len(playable_cards) > 0 THEN Sent(Command("play", playable_cards[1], -1))
        ELSE IF CanClue(tin) /\ play_target # 0
        THEN LET target == TargetAt(tin, play_target)
             IN  Sent(Command(tin.play_clues[target][1].type, target,
                              tin.play_clues[target][1].value))
        ELSE IF CanClue(tin) /\ tin.numPlayers = 2 /\ Len(tin.tempo_clues[other]) > 0
        THEN Sent(Command(tin.tempo_clues[other][1].type, other,
                          tin.tempo_clues[other][1].value))
        ELSE IF tin.clue_tokens = 8
        THEN Sent(Command(tin.stall_clue.type, tin.stall_clue.target, tin.stall_clue.value))
        ELSE IF (\A i \in 1..Len(tin.hand) : tin.hand[i].clued) /\ Len(trash_cards) > 0
        THEN Sent(Command("discard", trash_cards[1], -1))
        ELSE IF (\A i \in 1..Len(tin.hand) : tin.hand[i].clued) /\ CanClue(tin)
        THEN Sent(Command(tin.stall_clue.type, tin.stall_clue.target, tin.stall_clue.value))
        ELSE IF Len(trash_cards) > 0 THEN Sent(Command("discard", trash_cards[1], -1))
        ELSE IF chopIndex # -1 THEN Sent(Command("discard", tin.hand[chopIndex + 1].order, -1))
        ELSE Sent(Command("discard", tin.hand[rnd].order, -1))

\* take_action(state, tableID); rnd is the index drawn by Math.random. The
\* name find_own_playables is neither imported nor declared in the file: the
\* call at line 41 raises a ReferenceError unless the name is bound globally.
take_action(tin, rnd) ==
    LET others == 0..(tin.numPlayers - 1)
        urgent == FirstTarget(tin, {p \in others : NeedsUrgentSave(tin, p)})
        distracted == FirstTarget(tin, {p \in others : NeedsDistractedSave(tin, p)})
    IN  IF CanClue(tin) /\ urgent # 0
        THEN LET target == TargetAt(tin, urgent)
             IN  Sent(Command(tin.save_clues[target].type, target,
                              tin.save_clues[target].value))
        ELSE IF CanClue(tin) /\ distracted # 0
        THEN LET target == TargetAt(tin, distracted)
             IN  Sent(Command(tin.play_clues[target][1].type, target,
                              tin.play_clues[target][1].value))
        ELSE IF ~tin.own_playables_bound THEN [sent |-> <<>>, thrown |-> TRUE]
        ELSE OwnTurn(tin, rnd)

NoActionInput ==
    [numPlayers |-> 2, ourPlayerIndex |-> 0, clue_tokens |-> 0,
     save_clues |-> <<>>, playables |-> <<>>, play_clues |-> <<>>, tempo_clues |-> <<>>,
     stall_clue |-> NoClue, hand |-> <<>>, own_playables_bound |-> FALSE,
     own_playables |-> <<>>, trash_cards |-> <<>>]

NoAction == [called |-> FALSE, sent |-> <<>>, thrown |-> FALSE]

ActionIdle ==
    /\ ta_in = NoActionInput
    /\ ta_out = NoAction

\* ------------------------------------------------------------------------
\* Rewind: PlayfulSieve.createBlank and the replay of the action log
\* ------------------------------------------------------------------------
MaxActions == 3
MaxRewinds == 1

\* new PlayfulSieve(tableID, playerNames, ourPlayerIndex, suits, in_progress)
NewSieve ==
    [play_stacks |-> ZeroStacks, discard_stacks |-> ZeroDiscards, strikes |-> 0,
     notes |-> 0, rewinds |-> 0, locked_shifts |-> 0]

\* mutant: the blank game keeps the strikes of the game it replaces
createBlankKeepsStrikes(this) ==
    [NewSieve EXCEPT !.notes = this.notes, !.rewinds = this.rewinds,
                     !.locked_shifts = this.locked_shifts, !.strikes = this.strikes]
createBlank(this) ==
    [NewSieve EXCEPT !.notes = this.notes, !.rewinds = this.rewinds,
                     !.locked_shifts = this.locked_shifts]

\* what one logged action does to the authoritative state
handle_action(g, action) ==
    CASE action.type = "play" ->
            [g EXCEPT !.play_stacks[SuitOf(action.identity)] = RankOf(action.identity)]
      [] action.type = "discard" ->
            [g EXCEPT !.discard_stacks[SuitOf(action.identity)][RankOf(action.identity)] = @ + 1,
                      !.strikes = IF action.failed THEN @ + 1 ELSE @]
      [] OTHER -> g

RECURSIVE Replay(_, _, _)
Replay(g, log, i) ==
    IF i > Len(log) THEN g ELSE Replay(handle_action(g, log[i]), log, i + 1)

\* game.rewind(action_index, undefined): a blank game replays the whole log
rewind(this, log, action_index) == Replay(createBlank(this), log, 1)

ThisGame ==
    [play_stacks |-> play_stacks, discard_stacks |-> discard_stacks, strikes |-> strikes,
     notes |-> notes, rewinds |-> rewinds, locked_shifts |-> locked_shifts]

Authoritative(g) == <<g.play_stacks, g.discard_stacks, g.strikes>>

NoRewindCall == [called |-> FALSE, action_index |-> -1, before |-> Authoritative(NewSieve)]

RewindIdle ==
    /\ actionList = <<>>
    /\ notes = 0
    /\ rewinds = 0
    /\ locked_shifts = 0
    /\ rewind_log = NoRewindCall

\* ------------------------------------------------------------------------
\* The replay driver: main and parse_action
\* ------------------------------------------------------------------------
ReplayPlayers == {0, 1}
HandSize == 2
MaxLog == 4

\* constants.js END_CONDITION
END_CONDITION == [NORMAL |-> 1, STRIKEOUT |-> 2, TERMINATED |-> 4]

\* an action as the state receives it; num is the turn number of a turn action,
\* the target of a clue and the end condition of a gameOver
Delivered(type, player, order, identity, failed, num) ==
    [type |-> type, playerIndex |-> player, order |-> order, identity |-> identity,
     failed |-> failed, num |-> num]

\* an entry of game_data.actions
Performed(type, target, value) == [type |-> type, target |-> target, value |-> value]

\* game_data.deck[order]
DeckCard(full_deck, order) == full_deck[order + 1]

\* mutant: every draw carries the identity of the deck
DrawnIdentityOpen(full_deck, order, player, ourPlayerIndex) == DeckCard(full_deck, order)
\* the identity a draw action carries
DrawnIdentity(full_deck, order, player, ourPlayerIndex) ==
    IF player # ourPlayerIndex THEN DeckCard(full_deck, order) ELSE NoId

\* mutant: a card is drawn after every action while cards remain
MayDrawAfterAny(type, order, full_deck) == order < Len(full_deck)
\* a play or a discard is followed by a draw while cards remain
MayDraw(type, order, full_deck) == type \in {"PLAY", "DISCARD"} /\ order < Len(full_deck)

\* Basics: a drawn card joins the hand, a played or discarded card leaves it
onHands(hands, action) ==
    CASE action.type = "draw" ->
            [hands EXCEPT ![action.playerIndex] = @ \cup {action.order}]
      [] action.type \in {"play", "discard"} ->
            [hands EXCEPT ![action.playerIndex] = @ \ {action.order}]
      [] OTHER -> hands

\* state.handle_action(action): the action reaches the state
Deliver(rp, action) ==
    [rp EXCEPT !.state = handle_action(@, action),
               !.hands = onHands(@, action),
               !.stream = Append(@, action)]

parse_action(state, action, player, full_deck) ==
    CASE action.type = "PLAY" ->
            LET identity == DeckCard(full_deck, action.target)
            IN  IF state.play_stacks[SuitOf(identity)] + 1 = RankOf(identity)
                THEN Delivered("play", player, action.target, identity, FALSE, -1)
                ELSE Delivered("discard", player, action.target, identity, TRUE, -1)
      [] action.type = "DISCARD" ->
            Delivered("discard", player, action.target, DeckCard(full_deck, action.target),
                      FALSE, -1)
      [] action.type \in {"RANK", "COLOUR"} ->
            Delivered("clue", player, -1, NoId, FALSE, action.target)
      [] action.type = "END_GAME" ->
            Delivered("gameOver", action.target, -1, NoId, FALSE, action.value)

\* one pass of the inner loop "Draw cards in starting hands"
DealOne(rp) ==
    LET drawn == Deliver(rp, Delivered("draw", rp.dealPlayer, rp.order,
                     DrawnIdentity(rp.deck, rp.order, rp.dealPlayer, rp.ourPlayerIndex),
                     FALSE, -1))
        last == rp.dealI + 1 = HandSize
    IN  [drawn EXCEPT !.order = @ + 1,
                      !.dealI = IF last THEN 0 ELSE @ + 1,
                      !.dealPlayer = IF last THEN @ + 1 ELSE @,
                      !.phase = IF last /\ rp.dealPlayer + 1 = Cardinality(ReplayPlayers)
                                THEN "actions" ELSE "deal"]

\* one pass of the loop "Take actions"
TakeOne(rp, action) ==
    LET turned == IF rp.turn # 0
                  THEN Deliver(rp, Delivered("turn", rp.currentPlayerIndex, -1, NoId, FALSE,
                                             rp.turn))
                  ELSE rp
        acted == Deliver(turned, parse_action(turned.state, action, rp.currentPlayerIndex,
                                              rp.deck))
        drawn == IF MayDraw(action.type, acted.order, rp.deck)
                 THEN [Deliver(acted, Delivered("draw", rp.currentPlayerIndex, acted.order,
                           DrawnIdentity(rp.deck, acted.order, rp.currentPlayerIndex,
                                         rp.ourPlayerIndex), FALSE, -1))
                          EXCEPT !.order = @ + 1]
                 ELSE acted
        over == IF action.type = "PLAY" /\ drawn.state.strikes = 3
                THEN Deliver(drawn, Delivered("gameOver", rp.currentPlayerIndex, -1, NoId,
                                              FALSE, END_CONDITION.STRIKEOUT))
                ELSE drawn
    IN  [over EXCEPT !.currentPlayerIndex = (@ + 1) % Cardinality(ReplayPlayers),
                     !.turn = @ + 1,
                     !.actions = Append(@, action)]

\* after the loop: "if (actions.at(-1).type !== 'gameOver')"; the type of a
\* performed action is a member of ACTION, never the string 'gameOver'
Finish(rp) ==
    LET over == IF rp.actions[Len(rp.actions)].type # "gameOver"
                THEN Deliver(rp, Delivered("gameOver", rp.currentPlayerIndex, -1, NoId,
                                           FALSE, END_CONDITION.NORMAL))
                ELSE rp
    IN  [over EXCEPT !.phase = "done"]

NoReplay ==
    [phase |-> "idle", ourPlayerIndex |-> 0, deck |-> <<>>, order |-> 0,
     dealPlayer |-> 0, dealI |-> 0, currentPlayerIndex |-> 0, turn |-> 0,
     state |-> [play_stacks |-> ZeroStacks, discard_stacks |-> ZeroDiscards, strikes |-> 0],
     hands |-> [p \in ReplayPlayers |-> {}], actions |-> <<>>, stream |-> <<>>]

ReplayIdle == replay = NoReplay

\* ------------------------------------------------------------------------
\* Identity elimination: the update steps of a perspective's thoughts
\* ------------------------------------------------------------------------
ElimIds == {r1, r2, b1}
ElimOrders == {0, 1}

Thought(possible, inferred, clued, reset) ==
    [possible |-> possible, inferred |-> inferred, clued |-> clued, reset |-> reset]

\* mutant: the collapse is not recorded on the card
reset_card_unmarked(card) == [card EXCEPT !.inferred = card.possible]
\* Elim.reset_card: inferred is rebuilt from possible and the card is marked reset
reset_card(card) == [card EXCEPT !.inferred = card.possible, !.reset = TRUE]

\* the end of every update step: inferred is re-intersected with possible,
\* and a card left without inferences is reset
refresh(card) ==
    LET inferred == card.inferred \cap card.possible
    IN  IF inferred = {} THEN reset_card([card EXCEPT !.inferred = inferred])
        ELSE [card EXCEPT !.inferred = inferred]

\* Basics.onClue: touched cards keep the identities the clue touches, the
\* other cards of the hand lose them
onClue(th, v, clue, touched, hand_orders) ==
    LET ids == {id \in ElimIds : cardTouched(id, v, clue)}
    IN  [o \in DOMAIN th |->
            IF o \notin hand_orders THEN th[o]
            ELSE IF o \in touched
            THEN refresh([th[o] EXCEPT !.possible = @ \cap ids, !.inferred = @ \cap ids,
                                        !.clued = TRUE])
            ELSE refresh([th[o] EXCEPT !.possible = @ \ ids, !.inferred = @ \ ids])]

\* the perspective sees the card's identity (it is in another player's hand)
Sees(p, order) == p # -1 /\ p # order

\* cards known or assumed, under the perspective's information, to be the identity
AssumedAs(p, th, d, identity) ==
    {o \in DOMAIN th :
        \/ Sees(p, o) /\ d[o] = identity
        \/ th[o].possible = {identity}
        \/ th[o].clued /\ th[o].inferred = {identity}}

\* good touch elimination: an identity whose copies are all accounted for is
\* removed from every other card
good_touch_elim(p, th, d, state) ==
    LET gone == {id \in ElimIds :
                    Cardinality(AssumedAs(p, th, d, id)) + baseCount(state, id)
                        >= CardCountNormal(RankOf(id))}
    IN  [o \in DOMAIN th |->
            LET drop == {id \in gone : o \notin AssumedAs(p, th, d, id)}
            IN  refresh([th[o] EXCEPT !.possible = @ \ drop, !.inferred = @ \ drop])]

\* ------------------------------------------------------------------------
\* State copies: PlayfulSieve.minimalCopy
\* ------------------------------------------------------------------------
MaxCopies == 6
MaxTokens == 2

NoCopy == [called |-> FALSE, source |-> 0, thrown |-> FALSE, made |-> FALSE, copyDepth |-> 0]

\* the properties minimalCopy clones, with the clone-recursion counter
NewGame(tokens) == [copyDepth |-> 0, clue_tokens |-> tokens, strikes |-> 0]

\* mutant: the bound is checked one level too late
DepthExceededLate(this) == this.copyDepth > 4
\* "Maximum recursive depth reached."
DepthExceeded(this) == this.copyDepth > 3

minimalCopy(this) ==
    IF DepthExceeded(this)
    THEN [thrown |-> TRUE, newState |-> this]
    ELSE [thrown |-> FALSE,
          newState |-> [copyDepth |-> this.copyDepth + 1,
                        clue_tokens |-> this.clue_tokens, strikes |-> this.strikes]]

CopyIdle ==
    /\ copies = <<>>
    /\ copy_log = NoCopy

\* ------------------------------------------------------------------------
\* Perspective copies: Player.clone
\* ------------------------------------------------------------------------
MaxClones == 1
MaxWrites == 2

MutableFields == {"hypo_stacks", "thoughts", "links", "unknown_plays",
                  "waiting_connections", "elims"}
SharedFields == {"all_possible", "all_inferred"}
PlayerFields == MutableFields \cup SharedFields

FieldSlot(f) ==
    CASE f = "all_possible" -> 1 [] f = "all_inferred" -> 2 [] f = "hypo_stacks" -> 3
      [] f = "thoughts" -> 4 [] f = "links" -> 5 [] f = "unknown_plays" -> 6
      [] f = "waiting_connections" -> 7 [] f = "elims" -> 8

FieldCount == Cardinality(PlayerFields)

\* address of the object a new player allocates for a field
FreshRef(n, f) == n * FieldCount + FieldSlot(f)

\* new Player(...): every collection is a fresh object
NewPlayer == [f \in PlayerFields |-> FreshRef(0, f)]

\* mutant: the hypothetical stacks are handed over without slice()
CopiedByCloneNoSlice(f) == f \in {"thoughts", "links", "waiting_connections", "elims"}
\* the constructor arguments that Player.clone copies; the others are passed as they are
CopiedByClone(f) == f \in {"hypo_stacks", "thoughts", "links", "waiting_connections", "elims"}

\* Player.clone(): the references held by the new player, n players existing
clone(this, n) ==
    [f \in PlayerFields |-> IF CopiedByClone(f) THEN FreshRef(n, f) ELSE this[f]]

\* what each player reads through its references
View(ps, h) == [i \in 1..Len(ps) |-> [f \in PlayerFields |-> h[ps[i][f]]]]

RECURSIVE SumHeap(_, _)
SumHeap(h, R) ==
    IF R = {} THEN 0
    ELSE LET x == CHOOSE y \in R : TRUE IN h[x] + SumHeap(h, R \ {x})

CloneIdle ==
    /\ players = <<>>
    /\ heap = <<>>
    /\ writer = 0
    /\ before = <<>>

\* ------------------------------------------------------------------------
\* Clue determination: inputs and actions
\* ------------------------------------------------------------------------
HandCard(order, id, clued, old_bad) ==
    [order |-> order, id |-> id, clued |-> clued, old_bad |-> old_bad]

HandIds == {<<r1, r2, b1>>, <<r1, r1, b1>>, <<b1, r1, r2>>}

\* clued positions and, among them, cards whose earlier belief was already broken
CluedPatterns == {<<{}, {}>>, <<{1}, {}>>, <<{1, 2}, {1}>>}

HandChoices ==
    { [i \in 1..3 |-> HandCard(i - 1, ids[i], i \in pat[1], i \in pat[2])] :
        ids \in HandIds, pat \in CluedPatterns }

VariantChoices ==
    { Variant([s \in Suits |-> IF s = 0 THEN "Red" ELSE IF s = 1 THEN x ELSE "Green"]) :
        x \in {"Blue", "Rainbow", "White"} }

NoOptions == [defined |-> FALSE, excludeColour |-> FALSE, excludeRank |-> FALSE, save |-> FALSE]

OptionChoices ==
    { NoOptions,
      [defined |-> TRUE, excludeColour |-> FALSE, excludeRank |-> FALSE, save |-> FALSE],
      [defined |-> TRUE, excludeColour |-> FALSE, excludeRank |-> FALSE, save |-> TRUE],
      [defined |-> TRUE, excludeColour |-> FALSE, excludeRank |-> TRUE, save |-> FALSE] }

Sim(focus, other, safe, value) ==
    [focus |-> focus, other |-> other, safe |-> safe, value |-> value, remainder |-> 4]

\* outcomes of simulate_clue, clue_safe and find_clue_value for one candidate
SimChoices ==
    { Sim("known", "open", TRUE, 1),
      Sim("known", "open", TRUE, 2),
      Sim("open", "open", FALSE, 1),
      Sim("reset", "open", TRUE, 2),
      Sim("wrong", "open", TRUE, 2),
      Sim("known", "reset", TRUE, 2),
      Sim("known", "cm_reset", TRUE, 1) }

NoCall == [clue |-> NoClue, result |-> [value |-> 0, remainder |-> 0], results |-> <<>>,
           evaluated |-> <<>>, thrown |-> FALSE, possible_clues |-> <<>>, called |-> FALSE]

ClueIdle ==
    /\ variant = Variant([s \in Suits |-> "Red"])
    /\ hand = <<>>
    /\ clue_tokens = 8
    /\ dc_target_card = -1
    /\ dc_options = NoOptions
    /\ dc_sims = <<>>
    /\ dc_out = NoCall

GameState ==
    [play_stacks |-> play_stacks, max_ranks |-> [s \in Suits |-> MaxRank],
     clue_tokens |-> clue_tokens]

InitClue ==
    /\ HypoIdle
    /\ CopyIdle
    /\ CloneIdle
    /\ DiscardIdle
    /\ RewindIdle
    /\ FocusIdle
    /\ ValueIdle
    /\ ReplayIdle
    /\ ActionIdle
    /\ play_stacks \in StackChoices
    /\ discard_stacks = ZeroDiscards
    /\ strikes = 0
    /\ variant \in VariantChoices
    /\ hand \in HandChoices
    /\ clue_tokens \in {2, 3}
    /\ dc_target_card = -1
    /\ dc_options = NoOptions
    /\ dc_sims = <<>>
    /\ dc_out = NoCall

ClueTarget == 1

\* determine_clue(game, target, target_card, options)
DetermineClue ==
    \E target_card \in {hand[i].order : i \in 1..Len(hand)}, options \in OptionChoices :
        LET cands == direct_clues(variant, ClueTarget, CardOf(hand, target_card).id, options)
        IN  \E sims \in [{cands[i] : i \in 1..Len(cands)} -> SimChoices] :
            /\ ~dc_out.called
            /\ clue_tokens > 0
            /\ dc_target_card' = target_card
            /\ dc_options' = options
            /\ dc_sims' = sims
            /\ dc_out' = [called |-> TRUE] @@
                    determine_clue(GameState, variant, hand, ClueTarget, target_card, options, sims)
            /\ UNCHANGED <<actionVars, valueVars, replayVars, stateVars, rewindVars, hypoVars, copyVars, cloneVars, discardVars, focusVars, variant, hand, clue_tokens>>

\* the returned clue is given: the touched cards become clued
GiveClue ==
    /\ dc_out.called
    /\ dc_out.clue # NoClue
    /\ hand' = CluedHand(hand, Touched(hand, variant, dc_out.clue))
    /\ clue_tokens' = clue_tokens - 1
    /\ dc_target_card' = -1
    /\ dc_options' = NoOptions
    /\ dc_sims' = <<>>
    /\ dc_out' = NoCall
    /\ UNCHANGED <<actionVars, valueVars, replayVars, stateVars, rewindVars, hypoVars, copyVars, cloneVars, discardVars, focusVars, variant>>

NextClue == DetermineClue \/ GiveClue

SpecClue == InitClue /\ [][NextClue]_vars

\* ------------------------------------------------------------------------
\* Specification of the state copies
\* ------------------------------------------------------------------------
InitCopy ==
    /\ StateIdle
    /\ HypoIdle
    /\ ClueIdle
    /\ CloneIdle
    /\ DiscardIdle
    /\ RewindIdle
    /\ FocusIdle
    /\ ValueIdle
    /\ ReplayIdle
    /\ ActionIdle
    /\ copies \in {<<NewGame(t)>> : t \in 1..MaxTokens}
    /\ copy_log = NoCopy

\* state.minimalCopy() on one of the live states
MinimalCopy ==
    \E i \in 1..Len(copies) :
        LET res == minimalCopy(copies[i])
        IN  /\ Len(copies) < MaxCopies
            /\ copies' = IF res.thrown THEN copies ELSE Append(copies, res.newState)
            /\ copy_log' = [called |-> TRUE, source |-> copies[i].copyDepth,
                            thrown |-> res.thrown, made |-> ~res.thrown,
                            copyDepth |-> IF res.thrown THEN 0 ELSE res.newState.copyDepth]
            /\ UNCHANGED <<actionVars, valueVars, replayVars, stateVars, rewindVars, hypoVars, clueVars, cloneVars, discardVars, focusVars>>

\* a simulated clue spends a clue token of the newest hypothetical state
SimulateClue ==
    /\ Len(copies) > 1
    /\ copies[Len(copies)].clue_tokens > 0
    /\ copies' = [copies EXCEPT ![Len(copies)].clue_tokens = @ - 1]
    /\ copy_log' = NoCopy
    /\ UNCHANGED <<actionVars, valueVars, replayVars, stateVars, rewindVars, hypoVars, clueVars, cloneVars, discardVars, focusVars>>

\* the newest hypothetical state is dropped when its evaluation returns
DropCopy ==
    /\ Len(copies) > 1
    /\ copies' = SubSeq(copies, 1, Len(copies) - 1)
    /\ copy_log' = NoCopy
    /\ UNCHANGED <<actionVars, valueVars, replayVars, stateVars, rewindVars, hypoVars, clueVars, cloneVars, discardVars, focusVars>>

NextCopy == MinimalCopy \/ SimulateClue \/ DropCopy

SpecCopy == InitCopy /\ [][NextCopy]_vars

\* ------------------------------------------------------------------------
\* Specification of the perspective copies
\* ------------------------------------------------------------------------
InitClone ==
    /\ StateIdle
    /\ HypoIdle
    /\ ClueIdle
    /\ CopyIdle
    /\ DiscardIdle
    /\ RewindIdle
    /\ FocusIdle
    /\ ValueIdle
    /\ ReplayIdle
    /\ ActionIdle
    /\ players = <<NewPlayer>>
    /\ heap = [r \in 1..FieldCount |-> 0]
    /\ writer = 0
    /\ before = <<>>

\* player.clone()
Clone ==
    \E i \in 1..Len(players) :
        LET n == Len(players)
            new == clone(players[i], n)
        IN  /\ n <= MaxClones
            /\ players' = Append(players, new)
            /\ heap' = [r \in 1..((n + 1) * FieldCount) |->
                            IF r \in DOMAIN heap THEN heap[r]
                            ELSE IF \E f \in PlayerFields : new[f] = r
                                 THEN heap[players[i][CHOOSE f \in PlayerFields : new[f] = r]]
                                 ELSE 0]
            /\ writer' = 0
            /\ before' = <<>>
            /\ UNCHANGED <<actionVars, valueVars, replayVars, stateVars, rewindVars, hypoVars, clueVars, copyVars, discardVars, focusVars>>

\* an in-place change of one collection through one player's reference
WriteInPlace ==
    \E i \in 1..Len(players), f \in MutableFields :
        /\ SumHeap(heap, DOMAIN heap) < MaxWrites
        /\ heap' = [heap EXCEPT ![players[i][f]] = @ + 1]
        /\ writer' = i
        /\ before' = View(players, heap)
        /\ UNCHANGED <<actionVars, valueVars, replayVars, stateVars, rewindVars, hypoVars, clueVars, copyVars, discardVars, focusVars, players>>

NextClone == Clone \/ WriteInPlace

SpecClone == InitClone /\ [][NextClone]_vars

\* ------------------------------------------------------------------------
\* Specification of the discard interpretation
\* ------------------------------------------------------------------------
\* orders 0..2 are in the discarding player's hand, 3 and 4 in other hands
DiscardHands == <<{0, 1, 2}, {3}, {4}>>
DiscardIds == <<r1, r2, r2, r2, b1>>
CluedChoices == {{0, 1, 3}, {0, 1, 2, 3}}

\* the cards the observing player sees in the hands
VisibleHand(g, clued) ==
    LET RECURSIVE Cards(_)
        Cards(o) == IF o > 4 THEN <<>>
                    ELSE (IF \E p \in DOMAIN g.hands : o \in g.hands[p]
                          THEN <<HandCard(o, DiscardIds[o + 1], o \in clued, FALSE)>>
                          ELSE <<>>) \o Cards(o + 1)
    IN  Cards(0)

ChainChoices ==
    { WC(<<Conn(1, FALSE, 0)>>, 0, 1),
      WC(<<Conn(0, TRUE, 0), Conn(1, FALSE, 0)>>, 0, 1),
      WC(<<Conn(0, FALSE, 0), Conn(2, FALSE, 0)>>, 1, 1),
      WC(<<Conn(0, FALSE, 0), Conn(1, FALSE, 0)>>, 0, 2),
      WC(<<Conn(3, TRUE, 1), Conn(0, FALSE, 0), Conn(2, FALSE, 0)>>, 0, 2) }

WaitingLists ==
    UNION { [1..n -> ChainChoices] : n \in 0..MaxWaiting }

SarcasticChoices == {<<>>, <<3>>, <<3, 4>>}

DiscardThoughts ==
    { [rewinded |-> FALSE, matches |-> TRUE, finessed |-> FALSE],
      [rewinded |-> FALSE, matches |-> FALSE, finessed |-> TRUE],
      [rewinded |-> TRUE, matches |-> FALSE, finessed |-> FALSE] }

InitDiscard ==
    /\ StateIdle
    /\ HypoIdle
    /\ ClueIdle
    /\ CopyIdle
    /\ CloneIdle
    /\ RewindIdle
    /\ FocusIdle
    /\ ValueIdle
    /\ ReplayIdle
    /\ ActionIdle
    /\ \E stacks \in StackChoices, wcs \in WaitingLists, one \in {0, 1} :
        game = [play_stacks |-> stacks,
                discard_stacks |-> [ZeroDiscards EXCEPT ![0][2] = one],
                max_ranks |-> [s \in Suits |-> MaxRank], strikes |-> 0, clue_tokens |-> 0,
                hands |-> DiscardHands, waiting_connections |-> wcs, early_game |-> TRUE]
    /\ discard_log = NoDiscard

\* a discard (or a bombed play) of a card of the first hand is interpreted
InterpretDiscard ==
    \E order \in game.hands[1], failed \in BOOLEAN, clued \in CluedChoices,
       sarcastics \in SarcasticChoices, th \in DiscardThoughts :
        LET action == [order |-> order, playerIndex |-> 0,
                       identity |-> DiscardIds[order + 1],
                       failed |-> failed, clued |-> order \in clued,
                       drawn_index |-> order + 1]
            g1 == onDiscard(game, action)
            trash == isTrash(g1, VisibleHand(g1, clued), action.identity, order)
            res == interpret_discard(game, action, sarcastics,
                                     [rewinded |-> th.rewinded, matches |-> th.matches,
                                      finessed |-> th.finessed, trash |-> trash])
        IN  /\ ~discard_log.called
            /\ game.strikes < 2
            /\ game' = res.game
            /\ discard_log' = res.log
            /\ UNCHANGED <<actionVars, valueVars, replayVars, stateVars, rewindVars, hypoVars, clueVars, copyVars, cloneVars, focusVars>>

\* the game goes on after a discard that triggered no rewind
NextTurn ==
    /\ discard_log.called
    /\ ~discard_log.rewind.called
    /\ discard_log' = NoDiscard
    /\ UNCHANGED <<actionVars, valueVars, replayVars, stateVars, rewindVars, hypoVars, clueVars, copyVars, cloneVars, focusVars, game>>

NextDiscard == InterpretDiscard \/ NextTurn

SpecDiscard == InitDiscard /\ [][NextDiscard]_vars

\* ------------------------------------------------------------------------
\* Specification of the rewind
\* ------------------------------------------------------------------------
ReplayIds == {r1, r2, b1}

LoggedActions ==
    {[type |-> "play", identity |-> id, failed |-> FALSE] : id \in ReplayIds}
        \cup {[type |-> "discard", identity |-> id, failed |-> f] :
                    id \in ReplayIds, f \in BOOLEAN}
        \cup {[type |-> "clue", identity |-> NoId, failed |-> FALSE]}

\* the server only reports plays that succeed and cards that still exist
Legal(g, action) ==
    /\ action.type = "play" =>
            RankOf(action.identity) = g.play_stacks[SuitOf(action.identity)] + 1
    /\ action.type # "clue" =>
            baseCount(g, action.identity) < CardCountNormal(RankOf(action.identity))
    /\ g.strikes < 3

InitRewind ==
    /\ StateIdle
    /\ HypoIdle
    /\ ClueIdle
    /\ CopyIdle
    /\ CloneIdle
    /\ DiscardIdle
    /\ RewindIdle
    /\ FocusIdle
    /\ ValueIdle
    /\ ReplayIdle
    /\ ActionIdle

\* the next action of the game is logged and handled; the conventions may
\* also write notes and shift the locked-hand counter
HandleAction ==
    \E action \in LoggedActions, n \in 0..1, shifts \in 0..1 :
        LET g == handle_action(ThisGame, action)
        IN  /\ Len(actionList) < MaxActions
            /\ Legal(ThisGame, action)
            /\ actionList' = Append(actionList, action)
            /\ play_stacks' = g.play_stacks
            /\ discard_stacks' = g.discard_stacks
            /\ strikes' = g.strikes
            /\ notes' = n
            /\ locked_shifts' = shifts
            /\ rewind_log' = NoRewindCall
            /\ UNCHANGED <<actionVars, valueVars, replayVars, hypoVars, clueVars, copyVars, cloneVars, discardVars, focusVars, rewinds>>

\* the game is rewound to an earlier action and replaced by the replayed one
Rewind ==
    \E action_index \in 0..(Len(actionList) - 1), n \in 0..1, shifts \in 0..1 :
        LET g == rewind(ThisGame, actionList, action_index)
        IN  /\ rewinds < MaxRewinds
            /\ play_stacks' = g.play_stacks
            /\ discard_stacks' = g.discard_stacks
            /\ strikes' = g.strikes
            /\ notes' = IF n = 1 THEN n ELSE g.notes
            /\ locked_shifts' = IF shifts = 1 THEN shifts ELSE g.locked_shifts
            /\ rewinds' = g.rewinds + 1
            /\ rewind_log' = [called |-> TRUE, action_index |-> action_index,
                              before |-> Authoritative(ThisGame)]
            /\ UNCHANGED <<actionVars, valueVars, replayVars, hypoVars, clueVars, copyVars, cloneVars, discardVars, focusVars, actionList>>

NextRewind == HandleAction \/ Rewind

SpecRewind == InitRewind /\ [][NextRewind]_vars

\* ------------------------------------------------------------------------
\* Specification of the identity elimination
\* ------------------------------------------------------------------------
ElimDecks == {<<b1, r1>>, <<r1, r2>>, <<r2, b1>>}

InferenceChoices == {{r1}, {r2}, {b1}, {r1, b1}}

ElimState == [play_stacks |-> play_stacks, discard_stacks |-> discard_stacks]

InitElim ==
    /\ ClueIdle
    /\ CopyIdle
    /\ CloneIdle
    /\ DiscardIdle
    /\ RewindIdle
    /\ FocusIdle
    /\ ValueIdle
    /\ ReplayIdle
    /\ ActionIdle
    /\ play_stacks \in StackChoices
    /\ discard_stacks \in {ZeroDiscards, [ZeroDiscards EXCEPT ![0][1] = 1]}
    /\ strikes = 0
    /\ \E d \in ElimDecks : deck = [o \in ElimOrders |-> d[o + 1]]
    /\ playerIndex \in {-1, 0, 1}
    /\ thoughts = [o \in ElimOrders |-> Thought(ElimIds, ElimIds, FALSE, FALSE)]
    /\ links = <<>>
    /\ waiting_connections = <<>>
    /\ hypo_stacks = ZeroStacks
    /\ unknown_plays = {}
    /\ calls = 0
    /\ prev_hypo = [hypo_stacks |-> ZeroStacks, unknown_plays |-> {}]
    /\ last_run = NoRun

ElimFrame ==
    UNCHANGED <<actionVars, valueVars, replayVars, stateVars, rewindVars, clueVars, copyVars, cloneVars, discardVars, focusVars, deck,
                playerIndex, links, waiting_connections, hypo_stacks, unknown_plays,
                calls, prev_hypo, last_run>>

\* a clue to the hand of one player (order o is the hand of player o)
ElimClue ==
    \E target \in ElimOrders, i \in 1..(NumSuits + MaxRank) :
        LET clue == AllClues(target)[i]
            v == Variant([s \in Suits |-> IF s = 0 THEN "Red" ELSE "Blue"])
            touched == {o \in {target} : cardTouched(deck[o], v, clue)}
        IN  /\ touched # {}
            /\ thoughts' = good_touch_elim(playerIndex,
                                onClue(thoughts, v, clue, touched, {target}), deck, ElimState)
            /\ ElimFrame

\* the conventions assign an inference to a clued card
ElimInfer ==
    \E o \in ElimOrders, ids \in InferenceChoices :
        /\ thoughts[o].clued
        /\ thoughts' = good_touch_elim(playerIndex,
                            [thoughts EXCEPT ![o] = refresh([@ EXCEPT !.inferred = ids])],
                            deck, ElimState)
        /\ ElimFrame

NextElim == ElimClue \/ ElimInfer

SpecElim == InitElim /\ [][NextElim]_vars

\* ------------------------------------------------------------------------
\* Specification of the focus possibilities
\* ------------------------------------------------------------------------
FocusVariants ==
    { Variant([x \in Suits |-> IF x = 0 THEN "Red"
                               ELSE IF x = NumSuits - 1 THEN name ELSE "Green"]) :
        name \in {"Blue", "Rainbow", "Omni", "Black"} }

FocusStacks ==
    { ZeroStacks, [ZeroStacks EXCEPT ![0] = 1], [x \in Suits |-> 2],
      [ZeroStacks EXCEPT ![0] = 4], [ZeroStacks EXCEPT ![0] = MaxRank] }

\* nothing discarded; one copy of the ranks 1 to 4 of every suit discarded;
\* two copies of the first suit's rank 1 discarded
FocusDiscards ==
    { ZeroDiscards,
      [x \in Suits |-> [r \in 1..MaxRank |-> IF r < MaxRank THEN 1 ELSE 0]],
      [ZeroDiscards EXCEPT ![0][1] = 2] }

\* the cards found to connect to the first, second, ... rank above a stack
ChainShapes ==
    { <<>>,
      <<"finesse">>,
      <<"prompt", "finesse">>,
      <<"known">>,
      <<"playable", "known", "finesse">> }

ChainOf(shape, suitIndex) ==
    [i \in 1..Len(shape) |->
        Connecting(shape[i], 10 * (suitIndex + 1) + i, shape[i] = "known", shape[i] = "known")]

AllIdentities == Suits \X (1..MaxRank)

InitFocus ==
    /\ StateIdle
    /\ HypoIdle
    /\ ClueIdle
    /\ CopyIdle
    /\ CloneIdle
    /\ DiscardIdle
    /\ RewindIdle
    /\ ValueIdle
    /\ ReplayIdle
    /\ ActionIdle
    /\ \E v \in FocusVariants, stacks \in FocusStacks, discards \in FocusDiscards,
          chop \in BOOLEAN, fill_ins \in {1, 2}, seen2 \in {{}, Suits},
          inferred \in {{}, AllIdentities}, shape \in ChainShapes,
          i \in 1..(NumSuits + MaxRank) :
        /\ isCluable(v, AllClues(1)[i])
        /\ fp_in = [state |-> [play_stacks |-> stacks, discard_stacks |-> discards,
                               variant |-> v],
                    clue |-> AllClues(1)[i], chop |-> chop, fill_ins |-> fill_ins,
                    seen2 |-> seen2, focus_inferred |-> inferred,
                    chains |-> [x \in Suits |-> ChainOf(shape, x)]]
    /\ fp_out = NoFocusCall

\* find_focus_possible(state, action) for the clue that was given
FindFocusPossible ==
    LET res == find_focus_possible(fp_in)
    IN  /\ ~fp_out.called
        /\ fp_out' = [called |-> TRUE, generated |-> res.generated,
                      focus_possible |-> res.focus_possible, finessed |-> res.finessed,
                      state |-> res.state, hypo_state |-> res.hypo_state]
        /\ UNCHANGED <<actionVars, valueVars, replayVars, stateVars, rewindVars, hypoVars, clueVars, copyVars, cloneVars,
                       discardVars, fp_in>>

NextFocus == FindFocusPossible

SpecFocus == InitFocus /\ [][NextFocus]_vars

\* ------------------------------------------------------------------------
\* Specification of the card values
\* ------------------------------------------------------------------------
\* card 0 is the card valued, held by another player; card 1 is another player's
\* card, an unrelated 5 or a second copy, clued or not; card 2 is in our own hand,
\* inferred to be an unrelated 5 or a copy. The hypothetical stack of the first
\* suit is ahead of its play stack by the cards believed to play; when the
\* valued identity is among them it is the valued card itself (clued, its order
\* passed to cardValue), a saved copy, or a promised link of our hand whose
\* cards are not identified one by one.
InitValue ==
    /\ StateIdle
    /\ HypoIdle
    /\ ClueIdle
    /\ CopyIdle
    /\ CloneIdle
    /\ DiscardIdle
    /\ RewindIdle
    /\ FocusIdle
    /\ ReplayIdle
    /\ ActionIdle
    /\ \E v \in ValueVariants, stacks \in ValueStacks, ahead \in {0, 1, 2},
          discards \in ValueDiscards,
          card \in ValueCards, other \in {"none", "copy", "saved"}, ours \in BOOLEAN,
          order \in {-1, 0}, promised \in BOOLEAN :
        /\ \A x \in ValueSuits, r \in 1..MaxRank : discards[x][r] <= cardCount(v, <<x, r>>)
        /\ stacks[0] + ahead <= MaxRankOf(v, discards, 0)
        /\ promised => ahead > 0
        /\ (SuitOf(card) = 0 /\ stacks[0] < RankOf(card) /\ RankOf(card) <= stacks[0] + ahead)
               => (order = 0 \/ other = "saved" \/ promised)
        /\ \A x \in ValueSuits : stacks[x] <= MaxRankOf(v, discards, x)
        /\ cv_in = [state |-> [play_stacks |-> stacks,
                               hypo_stacks |-> [stacks EXCEPT ![0] = @ + ahead],
                               max_ranks |-> [x \in ValueSuits |-> MaxRankOf(v, discards, x)],
                               discard_stacks |-> discards,
                               variant |-> v,
                               deck |-> [o \in Orders |->
                                            IF o = 0 THEN card
                                            ELSE IF o = 1
                                                 THEN (IF other = "none" THEN <<2, 5>> ELSE card)
                                                 ELSE (IF ours THEN card ELSE <<2, 5>>)],
                               cards |-> <<[order |-> 0, id |-> card, clued |-> order = 0],
                                           [order |-> 1,
                                            id |-> IF other = "none" THEN <<2, 5>> ELSE card,
                                            clued |-> other = "saved"],
                                           [order |-> 2,
                                            id |-> IF ours THEN card ELSE <<2, 5>>,
                                            clued |-> FALSE]>>,
                               ourHand |-> {2}],
                    card |-> card, order |-> order, promised |-> promised]
    /\ cv_out = NoValue

\* cardValue(state, card, order), with isBasicTrash, playableAway and isCritical
\* of the card
CardValue ==
    /\ ~cv_out.called
    /\ cv_out' = [called |-> TRUE,
                  value |-> cardValue(cv_in.state, cv_in.card, cv_in.order),
                  basic_trash |-> isBasicTrash(cv_in.state, cv_in.card),
                  away |-> playableAway(cv_in.state, cv_in.card),
                  critical |-> isCritical(cv_in.state, cv_in.card)]
    /\ UNCHANGED <<actionVars, replayVars, stateVars, rewindVars, hypoVars, clueVars,
                   copyVars, cloneVars, discardVars, focusVars, cv_in>>

NextValue == CardValue

SpecValue == InitValue /\ [][NextValue]_vars

\* ------------------------------------------------------------------------
\* Specification of the replay driver
\* ------------------------------------------------------------------------
\* decks of one or two cards more than the starting hands: twos only, or ones
\* and twos in turn
ReplayDecks ==
    { [o \in 1..(Cardinality(ReplayPlayers) * HandSize + more) |->
            IF twos \/ o % 2 = 0 THEN r2 ELSE r1] :
        more \in {1, 2}, twos \in BOOLEAN }

InitReplay ==
    /\ StateIdle
    /\ HypoIdle
    /\ ClueIdle
    /\ CopyIdle
    /\ CloneIdle
    /\ DiscardIdle
    /\ RewindIdle
    /\ FocusIdle
    /\ ValueIdle
    /\ ActionIdle
    /\ \E full_deck \in ReplayDecks, ourPlayerIndex \in ReplayPlayers :
        replay = [NoReplay EXCEPT !.phase = "deal", !.deck = full_deck,
                                  !.ourPlayerIndex = ourPlayerIndex]

\* the game the log records has not ended
Running(rp) ==
    /\ rp.state.strikes < 3
    /\ \A i \in 1..Len(rp.actions) : rp.actions[i].type # "END_GAME"

\* the actions a log can hold next: the current player plays or discards a card
\* of the own hand, clues another player, or the game is ended
NextPerformed(rp) ==
    { Performed(type, target, 0) :
        type \in {"PLAY", "DISCARD"}, target \in rp.hands[rp.currentPlayerIndex] }
    \cup { Performed(type, target, 1) :
        type \in {"RANK", "COLOUR"}, target \in ReplayPlayers \ {rp.currentPlayerIndex} }
    \cup { Performed("END_GAME", rp.currentPlayerIndex, END_CONDITION.TERMINATED) }

\* a card of the starting hands is drawn
DealCard ==
    /\ replay.phase = "deal"
    /\ replay' = DealOne(replay)
    /\ UNCHANGED <<actionVars, stateVars, rewindVars, hypoVars, clueVars, copyVars, cloneVars,
                   discardVars, focusVars, valueVars>>

\* the next action of the log is handled
TakeAction ==
    /\ replay.phase = "actions"
    /\ Len(replay.actions) < MaxLog
    /\ Running(replay)
    /\ \E action \in NextPerformed(replay) : replay' = TakeOne(replay, action)
    /\ UNCHANGED <<actionVars, stateVars, rewindVars, hypoVars, clueVars, copyVars, cloneVars,
                   discardVars, focusVars, valueVars>>

\* the log is at its end
EndReplay ==
    /\ replay.phase = "actions"
    /\ Len(replay.actions) > 0
    /\ replay' = Finish(replay)
    /\ UNCHANGED <<actionVars, stateVars, rewindVars, hypoVars, clueVars, copyVars, cloneVars,
                   discardVars, focusVars, valueVars>>

NextReplay == DealCard \/ TakeAction \/ EndReplay

SpecReplay == InitReplay /\ [][NextReplay]_vars

\* ------------------------------------------------------------------------
\* Specification of take_action
\* ------------------------------------------------------------------------
PlayerCounts == {2, 3}

ActionTokens == {0, 1, 8}

\* what find_clues and find_playables report about one other player
NeedChoices ==
    { [save_clue |-> save, playables |-> n, play_clues |-> plays] :
        save \in {NoClue, [type |-> RANK, value |-> 5, target |-> -1]},
        n \in {0, 1},
        plays \in {<<>>, <<[type |-> COLOUR, value |-> 0, target |-> -1],
                           [type |-> RANK, value |-> 1, target |-> -1]>>} }

NoNeed == [save_clue |-> NoClue, playables |-> 0, play_clues |-> <<>>]

\* own hands of three cards: none clued, the newest clued, all clued
OwnHands ==
    { [i \in 1..3 |-> [order |-> i - 1, clued |-> (i - 1) \in clued,
                       all_duplicates |-> dup /\ i = 1]] :
        clued \in {{}, {0}, {0, 1, 2}}, dup \in BOOLEAN }

InitAction ==
    /\ StateIdle
    /\ HypoIdle
    /\ ClueIdle
    /\ CopyIdle
    /\ CloneIdle
    /\ DiscardIdle
    /\ RewindIdle
    /\ FocusIdle
    /\ ValueIdle
    /\ ReplayIdle
    /\ \E n \in PlayerCounts, tokens \in ActionTokens, cards \in OwnHands,
          bound \in BOOLEAN, own \in {<<>>, <<0>>, <<0, 1>>}, trash \in {<<>>, <<2>>},
          tempo \in BOOLEAN :
        \E our \in {0, n - 1}, needs \in [0..(n - 1) -> NeedChoices] :
            /\ needs[our] = NoNeed
            /\ cards[1].all_duplicates => cards[1].clued
            /\ ~bound => own = <<>>
            /\ ta_in = [numPlayers |-> n, ourPlayerIndex |-> our, clue_tokens |-> tokens,
                        save_clues |-> [p \in 0..(n - 1) |-> needs[p].save_clue],
                        playables |-> [p \in 0..(n - 1) |-> needs[p].playables],
                        play_clues |-> [p \in 0..(n - 1) |-> needs[p].play_clues],
                        tempo_clues |-> [p \in 0..(n - 1) |->
                                            IF tempo /\ p # our
                                            THEN <<[type |-> RANK, value |-> 2, target |-> -1]>>
                                            ELSE <<>>],
                        stall_clue |-> [type |-> RANK, value |-> 4, target |-> (our + 1) % n],
                        hand |-> cards, own_playables_bound |-> bound,
                        own_playables |-> own, trash_cards |-> trash]
    /\ ta_out = NoAction

\* take_action(state, tableID) on the agent's turn
CallTakeAction ==
    /\ ~ta_out.called
    /\ \E rnd \in 1..Len(ta_in.hand) :
        ta_out' = [called |-> TRUE] @@ take_action(ta_in, rnd)
    /\ UNCHANGED <<stateVars, rewindVars, hypoVars, clueVars, copyVars, cloneVars,
                   discardVars, focusVars, valueVars, replayVars, ta_in>>

NextAction == CallTakeAction

SpecAction == InitAction /\ [][NextAction]_vars

InitHypo ==
    /\ ClueIdle
    /\ CopyIdle
    /\ CloneIdle
    /\ DiscardIdle
    /\ RewindIdle
    /\ FocusIdle
    /\ ValueIdle
    /\ ReplayIdle
    /\ ActionIdle
    /\ play_stacks \in StackChoices
    /\ discard_stacks = ZeroDiscards
    /\ strikes = 0
    /\ deck \in Decks
    /\ playerIndex \in {-1, 0}
    /\ thoughts = [o \in Orders |->
            WithId(Belief(InputIds, InputIds, FALSE, FALSE), SeenId(playerIndex, deck, o))]
    /\ links = <<>>
    /\ waiting_connections = <<>>
    /\ hypo_stacks = play_stacks
    /\ unknown_plays = {}
    /\ calls = 0
    /\ prev_hypo = [hypo_stacks |-> ZeroStacks, unknown_plays |-> {}]
    /\ last_run = NoRun

\* a change of the belief state ends the run of consecutive calls
Changed ==
    /\ calls' = 0
    /\ prev_hypo' = [hypo_stacks |-> ZeroStacks, unknown_plays |-> {}]
    /\ last_run' = NoRun

\* the elimination engine or an interpreter rewrites one card's belief
ChangeThought ==
    \E order \in Orders, belief \in ThoughtChoices :
        /\ order = 0 => belief \in OwnThoughtChoices
        /\ thoughts' = [thoughts EXCEPT ![order] = WithId(belief, SeenId(playerIndex, deck, order))]
        /\ thoughts' # thoughts
        /\ Changed
        /\ UNCHANGED <<actionVars, valueVars, replayVars, stateVars, rewindVars, clueVars, copyVars, cloneVars, discardVars, focusVars, deck, playerIndex, links, waiting_connections,
                       hypo_stacks, unknown_plays>>

\* links are recomputed by the elimination engine
ChangeLinks ==
    \E l \in LinkChoices :
        /\ l # links
        /\ links' = l
        /\ Changed
        /\ UNCHANGED <<actionVars, valueVars, replayVars, stateVars, rewindVars, clueVars, copyVars, cloneVars, discardVars, focusVars, deck, playerIndex, thoughts, waiting_connections,
                       hypo_stacks, unknown_plays>>

\* a clue interpretation adds or resolves a waiting connection
ChangeWaiting ==
    \E w \in WaitingChoices :
        /\ w # waiting_connections
        /\ waiting_connections' = w
        /\ Changed
        /\ UNCHANGED <<actionVars, valueVars, replayVars, stateVars, rewindVars, clueVars, copyVars, cloneVars, discardVars, focusVars, deck, playerIndex, thoughts, links,
                       hypo_stacks, unknown_plays>>

\* this.update_hypo_stacks(state)
UpdateHypoStacks ==
    LET res == update_hypo_stacks(ThisPlayer, ThisState)
    IN  /\ calls < MaxCalls
        /\ hypo_stacks' = res.hypo_stacks
        /\ unknown_plays' = res.unknown_plays
        /\ prev_hypo' = [hypo_stacks |-> hypo_stacks, unknown_plays |-> unknown_plays]
        /\ last_run' = [scans |-> res.scans, advances |-> res.advances,
                        skipped |-> res.skipped, warnings |-> res.warnings,
                        trace |-> res.trace, visited |-> res.visited,
                        exhausted |-> res.exhausted, common |-> playerIndex = -1]
        /\ calls' = calls + 1
        /\ UNCHANGED <<actionVars, valueVars, replayVars, stateVars, rewindVars, clueVars, copyVars, cloneVars, discardVars, focusVars, deck, playerIndex, thoughts, links, waiting_connections>>

NextHypo == ChangeThought \/ ChangeLinks \/ ChangeWaiting \/ UpdateHypoStacks

SpecHypo == InitHypo /\ [][NextHypo]_vars

\* ------------------------------------------------------------------------
\* Properties of update_hypo_stacks
\* ------------------------------------------------------------------------
RECURSIVE SumStacks(_, _)
SumStacks(stacks, S) ==
    IF S = {} THEN 0
    ELSE LET s == CHOOSE x \in S : TRUE IN stacks[s] + SumStacks(stacks, S \ {s})

\* C1: a second call of update_hypo_stacks, with no change of the state or of
\* the perspective's thoughts, links and waiting connections in between,
\* leaves hypo_stacks and unknown_plays as the first call left them.
HypoIdempotent ==
    calls >= 2 =>
        /\ hypo_stacks = prev_hypo.hypo_stacks
        /\ unknown_plays = prev_hypo.unknown_plays

HypoIdempotentWitness ==
    /\ calls >= 2
    /\ unknown_plays # {}
    /\ hypo_stacks # play_stacks

\* C2: update_hypo_stacks terminates: a scan is repeated only after a scan
\* that raised a stack, every advance raises one stack by one starting from
\* play_stacks, so there are at most 5 * suitCount advances and the loop
\* stops after one scan without a new playable card.
HypoTerminates ==
    calls > 0 =>
        /\ ~last_run.exhausted
        /\ Len(last_run.advances) <= MaxRank * NumSuits
        /\ last_run.scans <= Len(last_run.advances) + 1
        /\ last_run.scans >= 1
        /\ SumStacks(hypo_stacks, Suits) = SumStacks(play_stacks, Suits) + Len(last_run.advances)
        /\ \A s \in Suits : hypo_stacks[s] <= MaxRank

HypoTerminatesWitness ==
    /\ calls > 0
    /\ last_run.scans = 3
    /\ Len(last_run.advances) = 2

\* C3: for the common perspective no advance uses an identity that
\* contradicts the ground-truth identity of the card(s) it rests on, and no
\* advance counts an identity that a card already in unknown_plays really
\* has; this includes the advance of a completed promised link.
Contradicts(adv) == \A c \in adv.cards : deck[c] # NoId /\ deck[c] # adv.id

DoubleCounts(adv) == \E c \in adv.unknown \ adv.cards : deck[c] # NoId /\ deck[c] = adv.id

NoFalseAdvance ==
    (calls > 0 /\ last_run.common) =>
        \A i \in 1..Len(last_run.advances) :
            /\ ~Contradicts(last_run.advances[i])
            /\ ~DoubleCounts(last_run.advances[i])

\* one stack raised by one, to the rank of the identity claimed
RaisedByOne(step) ==
    \E s \in Suits :
        /\ step.after = [step.before EXCEPT ![s] = @ + 1]
        /\ step.claimed = {<<s, step.before[s] + 1>>}
        /\ step.id # NoId => step.id = <<s, step.before[s] + 1>>

Untouched(step) == step.after = step.before /\ step.claimed = {}

\* the resolved identity of the card is not the next rank of its suit
Mismatched(step) ==
    step.id # NoId /\ RankOf(step.id) # step.before[SuitOf(step.id)] + 1

\* C16: every change update_hypo_stacks makes to a hypothetical stack raises it
\* by exactly one, to the rank of the identity advanced; a resolved identity or
\* a completed promised link's identity that is not the next rank of its suit
\* changes no stack and claims no identity, and every scan still visits every
\* card of every hand.
HypoAdvancesByOne ==
    calls > 0 =>
        /\ \A i \in 1..Len(last_run.trace) :
               LET step == last_run.trace[i]
               IN  /\ RaisedByOne(step) \/ Untouched(step)
                   /\ step.warned => Untouched(step)
                   /\ Mismatched(step) => (step.warned /\ Untouched(step))
        /\ last_run.warnings = Cardinality({i \in 1..Len(last_run.trace) : last_run.trace[i].warned})
        /\ last_run.visited = last_run.scans * Len(HandsFlat)
        /\ ~last_run.exhausted

\* a mismatched resolved identity is passed over and a later card of the same
\* scan raises a stack
HypoAdvancesByOneWitness ==
    /\ calls > 0
    /\ \E i, j \in 1..Len(last_run.trace) :
           /\ i < j
           /\ Mismatched(last_run.trace[i])
           /\ last_run.trace[j].scan = last_run.trace[i].scan
           /\ RaisedByOne(last_run.trace[j])

\* ------------------------------------------------------------------------
\* Properties of determine_clue
\* ------------------------------------------------------------------------
SeqToSet(seq) == {seq[i] : i \in 1..Len(seq)}

\* C4: determine_clue never returns a clue whose simulated common belief
\* about target_card is reset or matches none of its inferences; a candidate
\* with such an outcome is discarded and is evaluated only once.
NeverReturnsBadFocus ==
    dc_out.called =>
        /\ \A i \in 1..Len(dc_out.results) :
            LET card == HypoThought(dc_sims[dc_out.results[i].clue].focus,
                                    CardOf(hand, dc_target_card).id)
            IN  ~card.reset /\ MatchesInferences(card)
        /\ dc_out.clue # NoClue =>
            LET card == HypoThought(dc_sims[dc_out.clue].focus, CardOf(hand, dc_target_card).id)
            IN  ~card.reset /\ MatchesInferences(card)
        /\ \A i, j \in 1..Len(dc_out.evaluated) :
            dc_out.evaluated[i] = dc_out.evaluated[j] => i = j

NeverReturnsBadFocusWitness ==
    /\ dc_out.called
    /\ dc_out.clue # NoClue
    /\ \E c \in SeqToSet(dc_out.evaluated) : dc_sims[c].focus = "wrong"
    /\ Len(dc_out.evaluated) = 2

\* C5: a returned clue is a cluable colour or rank clue that touches
\* target_card and whose focus on the hand before the clue is target_card.
ReturnedClueFocusesTarget ==
    (dc_out.called /\ dc_out.clue # NoClue) =>
        /\ dc_out.clue.type \in {COLOUR, RANK}
        /\ isCluable(variant, dc_out.clue)
        /\ cardTouched(CardOf(hand, dc_target_card).id, variant, dc_out.clue)
        /\ determine_focus(hand, Touched(hand, variant, dc_out.clue)).focused_card = dc_target_card

ReturnedClueFocusesTargetWitness ==
    /\ dc_out.called
    /\ dc_out.clue # NoClue
    /\ dc_out.clue.type = COLOUR
    /\ Len(dc_out.possible_clues) > Len(dc_out.evaluated)
    /\ Cardinality(Touched(hand, variant, dc_out.clue)) > 1

\* direct_clues lists colour clues by suit index, then rank clues by rank
ClueBefore(a, b) ==
    \/ a.type = COLOUR /\ b.type = RANK
    \/ a.type = b.type /\ a.value < b.value

\* C17: the clue determine_clue returns has the greatest find_clue_value among
\* the accepted candidates, and every other accepted candidate of the same
\* value comes after it in the order of direct_clues (colour clues by suit
\* index, then rank clues by rank).
BestClueEarliest ==
    (dc_out.called /\ dc_out.clue # NoClue) =>
        /\ \A i, j \in 1..Len(dc_out.possible_clues) :
               i < j => ClueBefore(dc_out.possible_clues[i], dc_out.possible_clues[j])
        /\ \E i \in 1..Len(dc_out.results) :
               /\ dc_out.results[i].clue = dc_out.clue
               /\ dc_out.result.value = dc_out.results[i].value
               /\ \A j \in 1..Len(dc_out.results) :
                      /\ dc_out.results[j].value <= dc_out.results[i].value
                      /\ (j # i /\ dc_out.results[j].value = dc_out.results[i].value) =>
                             ClueBefore(dc_out.clue, dc_out.results[j].clue)

\* a colour clue is returned over a rank clue of the same value
BestClueEarliestWitness ==
    /\ dc_out.called
    /\ dc_out.clue # NoClue
    /\ dc_out.clue.type = COLOUR
    /\ \E j \in 1..Len(dc_out.results) :
           /\ dc_out.results[j].clue.type = RANK
           /\ dc_out.results[j].value = dc_out.result.value

\* C18: the remainder of every result determine_clue builds is 0, unless the
\* clue's focus is the chop and the clue is unsafe or at most 2 clue tokens are
\* left; only then it is the remainder get_result computed for the new chop.
RemainderOnlyOnRiskyChop ==
    dc_out.called =>
        \A i \in 1..Len(dc_out.results) :
            LET res == dc_out.results[i]
            IN  IF res.chop /\ (~dc_sims[res.clue].safe \/ clue_tokens <= 2)
                THEN res.remainder = dc_sims[res.clue].remainder
                ELSE res.remainder = 0

\* with 3 clue tokens, an unsafe save clue on chop keeps its remainder and a
\* safe one on chop does not
RemainderOnlyOnRiskyChopWitness ==
    /\ dc_out.called
    /\ clue_tokens > 2
    /\ \E i, j \in 1..Len(dc_out.results) :
           /\ dc_out.results[i].chop /\ ~dc_sims[dc_out.results[i].clue].safe
           /\ dc_out.results[i].remainder > 0
           /\ dc_out.results[j].chop /\ dc_sims[dc_out.results[j].clue].safe
           /\ dc_out.results[j].remainder = 0

\* ------------------------------------------------------------------------
\* Properties of the copies
\* ------------------------------------------------------------------------
\* C8: minimalCopy on a state whose copyDepth is above 3 throws and yields
\* no copy; otherwise the copy has the source's copyDepth plus one; so no
\* state with copyDepth above 4 exists in a chain that starts at depth 0.
CopyDepthBounded ==
    /\ \A i \in 1..Len(copies) : copies[i].copyDepth <= 4
    /\ copy_log.called =>
        IF copy_log.source > 3
        THEN copy_log.thrown /\ ~copy_log.made
        ELSE ~copy_log.thrown /\ copy_log.made /\ copy_log.copyDepth = copy_log.source + 1

CopyDepthBoundedWitness ==
    /\ copy_log.called
    /\ copy_log.thrown
    /\ \E i \in 1..Len(copies) : copies[i].copyDepth = 4

\* C9: after Player.clone() an in-place change made through one player
\* leaves every collection of every other player unchanged (no mutable
\* collection is shared between a player and its clone).
CloneIndependent ==
    writer # 0 =>
        \A q \in 1..Len(players) : q # writer =>
            \A f \in MutableFields : View(players, heap)[q][f] = before[q][f]

\* ------------------------------------------------------------------------
\* Properties of the discard interpretation
\* ------------------------------------------------------------------------
\* the waiting connection holds the discarded card in its remaining chain and
\* every other waiting connection of the same action is cancelled by the discard
Cancelled(wcs, i, order) ==
    /\ FindConn(wcs[i], order) # -1
    /\ \A j \in 1..Len(wcs) :
        wcs[j].action_index = wcs[i].action_index => FindConn(wcs[j], order) # -1

SarcasticDiscard(log) ==
    /\ log.action.clued
    /\ RankOf(log.action.identity) > game.play_stacks[SuitOf(log.action.identity)]
    /\ RankOf(log.action.identity) <= game.max_ranks[SuitOf(log.action.identity)]
    /\ ~log.action.failed
    /\ Len(log.sarcastics) = 1

\* C10: when the discarded card is in the remaining chain of a waiting
\* connection and no other waiting connection of the same action is still
\* pending, the call handles one such waiting connection in exactly one of
\* two ways: if the card was clued, still useful, not bombed and
\* interpret_sarcastic has exactly one candidate, the connection entry is
\* rewritten to the candidate and its holder and nothing is rewound;
\* otherwise the game is rewound to the waiting connection's action_index
\* with an 'ignore' override whose conn_index is the number of non-hidden
\* connections before the discarded one.
DiscardCancelsOrRewinds ==
    LET log == discard_log
        wcs == log.before
        order == log.action.order
    IN  (log.called /\ \E i \in 1..Len(wcs) : Cancelled(wcs, i, order)) =>
            /\ log.hit \in 1..Len(wcs)
            /\ Cancelled(wcs, log.hit, order)
            /\ LET wc == wcs[log.hit]
                   d == FindConn(wc, order)
               IN  IF SarcasticDiscard(log)
                   THEN /\ ~log.rewind.called
                        /\ log.rewritten
                        /\ game.waiting_connections[log.hit].connections[d + 1] =
                              [wc.connections[d + 1] EXCEPT
                                  !.card = log.sarcastics[1],
                                  !.reacting = HolderOf(game, log.sarcastics[1])]
                   ELSE /\ ~log.rewritten
                        /\ log.rewind.called
                        /\ log.rewind.type = "ignore"
                        /\ log.rewind.action_index = wc.action_index
                        /\ log.rewind.order = order
                        /\ log.rewind.conn_index =
                              Cardinality({i \in 1..d : ~wc.connections[i].hidden})

\* a rewind past a hidden connection, and a rewrite, both happen
DiscardRewindWitness ==
    /\ discard_log.called
    /\ discard_log.rewind.type = "ignore"
    /\ discard_log.hit = 2
    /\ discard_log.rewind.conn_index = 1
    /\ FindConn(discard_log.before[2], discard_log.action.order) = 2

\* ------------------------------------------------------------------------
\* Properties of the rewind
\* ------------------------------------------------------------------------
\* C6: a rewind to any action index without an override, replayed to the end
\* of the log, leaves the play_stacks, discard_stacks and strikes that the
\* uninterrupted handling of the log had produced, whatever the blank game
\* carried over from the game it replaces.
RewindReproduces ==
    rewind_log.called => Authoritative(ThisGame) = rewind_log.before

\* a rewind of a log with a play, a discard and a bomb, with carried-over data
RewindReproducesWitness ==
    /\ rewind_log.called
    /\ strikes > 0
    /\ \E s \in Suits : play_stacks[s] > 0
    /\ \E i \in 1..Len(actionList) :
        actionList[i].type = "discard" /\ ~actionList[i].failed
    /\ locked_shifts > 0

\* ------------------------------------------------------------------------
\* Properties of the identity elimination
\* ------------------------------------------------------------------------
\* C7: after every completed update step, in every perspective, every
\* card's inferred set is a subset of its possible set, and its possible set
\* is empty only if the card is marked reset.
InferredWithinPossible ==
    \A o \in DOMAIN thoughts :
        /\ thoughts[o].inferred \subseteq thoughts[o].possible
        /\ thoughts[o].possible = {} => thoughts[o].reset

\* a card whose possible set has collapsed, next to an unaffected one
InferredWithinPossibleWitness ==
    /\ DOMAIN thoughts = ElimOrders
    /\ \E o \in ElimOrders :
        /\ thoughts[o].possible = {}
        /\ thoughts[o].reset
    /\ \E o \in ElimOrders :
        /\ thoughts[o].clued
        /\ thoughts[o].inferred # {}
        /\ thoughts[o].inferred # thoughts[o].possible

\* C11: when the discarded card is in the remaining chain of a waiting
\* connection while another waiting connection of the same action is still
\* pending, no rewind is triggered on its account, and when the call
\* returns without a rewind that waiting connection is gone while every
\* waiting connection that did not reference the card is still present.
DiscardDropsOnlyThat ==
    LET log == discard_log
        wcs == log.before
        order == log.action.order
    IN  log.called =>
            \A i \in 1..Len(wcs) :
                (/\ FindConn(wcs[i], order) # -1
                 /\ \E j \in 1..Len(wcs) :
                        /\ wcs[j].action_index = wcs[i].action_index
                        /\ FindConn(wcs[j], order) = -1) =>
                    /\ ~(log.rewind.type = "ignore"
                            /\ log.rewind.action_index = wcs[i].action_index)
                    /\ ~log.rewind.called =>
                        /\ wcs[i] \notin SeqToSet(game.waiting_connections)
                        /\ \A j \in 1..Len(wcs) :
                                FindConn(wcs[j], order) = -1 =>
                                    wcs[j] \in SeqToSet(game.waiting_connections)

\* the discard is bombed, or its card matches no inference and is not trash
Contradicted(log) ==
    log.action.failed \/ (~log.thoughts.matches /\ ~log.thoughts.trash)

IdentifyRewind(log) ==
    /\ log.rewind.called
    /\ log.rewind.type = "identify"
    /\ log.rewind.action_index = log.action.drawn_index
    /\ log.rewind.order = log.action.order
    /\ log.rewind.playerIndex = log.action.playerIndex
    /\ log.rewind.identity = log.action.identity
    /\ log.tail = "none"

\* C12 as stated: when the scan of the waiting connections did not end the
\* call, a discard that is bombed, or whose card matches no inferred
\* identity and is not known trash, triggers a rewind to the card's draw
\* index with an 'identify' override, and the rest of the interpretation
\* is not run.
ContradictionRewinds ==
    (discard_log.called /\ discard_log.hit = 0 /\ Contradicted(discard_log)) =>
        IdentifyRewind(discard_log)

\* C12, amended: the same, for a card whose common thought is not already
\* marked rewinded; a card marked rewinded triggers no rewind.
ContradictionRewindsOnce ==
    (discard_log.called /\ discard_log.hit = 0) =>
        IF Contradicted(discard_log) /\ ~discard_log.thoughts.rewinded
        THEN IdentifyRewind(discard_log)
        ELSE ~discard_log.rewind.called

\* an unbombed card that matches no inference is identified after a
\* waiting connection was dropped
ContradictionRewindsOnceWitness ==
    /\ discard_log.called
    /\ discard_log.hit = 0
    /\ ~discard_log.action.failed
    /\ discard_log.rewind.type = "identify"
    /\ Len(game.waiting_connections) < Len(discard_log.before)

\* ------------------------------------------------------------------------
\* Focus possibilities
\* ------------------------------------------------------------------------
SamePair(a, b) == a.suitIndex = b.suitIndex /\ a.rank = b.rank

\* the identity of entry i was generated as a play and as a save interpretation
GeneratedBothWays(generated, i) ==
    \E j, k \in 1..Len(generated) :
        /\ SamePair(generated[i], generated[j]) /\ ~generated[j].save
        /\ SamePair(generated[i], generated[k]) /\ generated[k].save

\* C13: find_focus_possible returns at most one entry per (suitIndex, rank), and
\* an identity generated both as a play and as a save interpretation survives as
\* the save interpretation, for colour and rank clues, Rainbow and Omni included.
SaveOverridesPlay ==
    fp_out.called =>
        /\ \A i, j \in 1..Len(fp_out.focus_possible) :
               SamePair(fp_out.focus_possible[i], fp_out.focus_possible[j]) => i = j
        /\ \A i \in 1..Len(fp_out.generated) :
               GeneratedBothWays(fp_out.generated, i) =>
                   \E j \in 1..Len(fp_out.focus_possible) :
                       /\ SamePair(fp_out.focus_possible[j], fp_out.generated[i])
                       /\ fp_out.focus_possible[j].save

\* the connecting cards find_connecting yields above the stack of a suit
ChainFound(fin, suitIndex) ==
    LET stack == fin.state.play_stacks[suitIndex]
        chain == fin.chains[suitIndex]
    IN  SubSeq(chain, 1, IF Len(chain) < MaxRank - stack THEN Len(chain) ELSE MaxRank - stack)

\* the play interpretation after the whole chain is returned, its finesses marked
ChainFollowed(fin, out, suitIndex) ==
    LET chain == ChainFound(fin, suitIndex)
        rank == fin.state.play_stacks[suitIndex] + 1 + Len(chain)
    IN  /\ \E i \in 1..Len(out.focus_possible) :
               out.focus_possible[i] = FocusEntry(suitIndex, rank, FALSE, chain)
        /\ \A j \in 1..Len(chain) :
               chain[j].type = "finesse" => chain[j].card \in out.finessed

\* no connecting card of the chain is a newly clued 'known' card with open
\* possibilities whose identity the focused card could have itself
ChainUnblocked(fin, suitIndex) ==
    \A j \in 1..Len(ChainFound(fin, suitIndex)) :
        ~Blocked(fin, suitIndex, fin.state.play_stacks[suitIndex] + j,
                 ChainFound(fin, suitIndex)[j])

\* C14 as stated: for a colour clue on suit s with k connecting cards found for the
\* ranks above the stack, the play interpretation of rank stack + 1 + k with
\* exactly those connections is returned and every finesse of the chain is marked.
ColourChainFollowed ==
    (fp_out.called /\ fp_in.clue.type = COLOUR) =>
        ChainFollowed(fp_in, fp_out, fp_in.clue.value)

\* C14, amended: the same, when the chain ends below rank 5 and none of its
\* connecting cards is a blocked connection.
ColourChainFollowedUnblocked ==
    (/\ fp_out.called /\ fp_in.clue.type = COLOUR
     /\ fp_in.state.play_stacks[fp_in.clue.value]
            + Len(ChainFound(fp_in, fp_in.clue.value)) < 5
     /\ ChainUnblocked(fp_in, fp_in.clue.value)) =>
        ChainFollowed(fp_in, fp_out, fp_in.clue.value)

\* stack at 1, one finesse found for rank 2: rank 3 with the finesse as its only
\* connection
ColourChainFollowedWitness ==
    /\ fp_out.called /\ fp_in.clue.type = COLOUR /\ fp_in.clue.value = 0
    /\ fp_in.state.play_stacks[0] = 1
    /\ Len(fp_in.chains[0]) = 1 /\ fp_in.chains[0][1].type = "finesse"
    /\ \E i \in 1..Len(fp_out.focus_possible) :
           fp_out.focus_possible[i] = FocusEntry(0, 3, FALSE, fp_in.chains[0])
    /\ fp_in.chains[0][1].card \in fp_out.finessed

\* C15: every save interpretation returned for a colour or a rank clue has the
\* focus on chop, no connections, a rank strictly above every play interpretation
\* generated for its suit, and an identity that is critical (or, for a rank-2
\* clue, without another visible copy); none names a played or playable identity.
SavesOnlyAboveReach ==
    fp_out.called =>
        \A i \in 1..Len(fp_out.focus_possible) :
            LET e == fp_out.focus_possible[i]
            IN  e.save =>
                    /\ fp_in.chop
                    /\ e.connections = <<>>
                    /\ \A j \in 1..Len(fp_out.generated) :
                           (/\ fp_out.generated[j].suitIndex = e.suitIndex
                            /\ ~fp_out.generated[j].save) => fp_out.generated[j].rank < e.rank
                    /\ \/ isCritical(fp_in.state, <<e.suitIndex, e.rank>>)
                       \/ /\ fp_in.clue.type = RANK /\ fp_in.clue.value = 2
                          /\ e.rank = 2 /\ e.suitIndex \notin fp_in.seen2
                    /\ e.rank > fp_in.state.play_stacks[e.suitIndex] + 1

\* ------------------------------------------------------------------------
\* Properties of the card values
\* ------------------------------------------------------------------------
\* play_stacks = [3, 0, 0] and the identity (suitIndex 0, rank 2)
PlayedTwo ==
    /\ cv_out.called
    /\ cv_in.state.play_stacks = [x \in ValueSuits |-> IF x = 0 THEN 3 ELSE 0]
    /\ cv_in.card = <<0, 2>>

\* C19 as stated: with play_stacks = [3, 0, 0] the identity (0, rank 2) is basic
\* trash and playableAway is -1 for it.
PlayedTwoOneAway ==
    PlayedTwo => (cv_out.basic_trash /\ cv_out.away = -1)

\* C19, amended: with play_stacks = [3, 0, 0] the identity (0, rank 2) is basic
\* trash and playableAway is -2 for it.
PlayedTwoTwoAway ==
    PlayedTwo => (cv_out.basic_trash /\ cv_out.away = -2)

PlayedTwoTwoAwayWitness ==
    PlayedTwo /\ cv_out.basic_trash /\ cv_out.away = -2 /\ cv_out.value = 0

\* C20: cardValue of a card of known identity is within 0..5: 0 for basic trash,
\* an identity saved elsewhere or a visible duplicate, else 5 when critical, else
\* 4 for a unique 2, else 5 - (rank - hypothetical stack of the suit).
CardValueInRange ==
    cv_out.called =>
        LET state == cv_in.state
            card == cv_in.card
        IN  /\ cv_out.value \in 0..5
            /\ cv_out.value =
                   IF \/ isBasicTrash(state, card)
                      \/ isSaved(state.cards, card, cv_in.order)
                      \/ Cardinality(visibleFind(state, card)) > 1
                   THEN 0
                   ELSE IF isCritical(state, card) THEN 5
                   ELSE IF unique2(state, card) THEN 4
                   ELSE 5 - (RankOf(card) - state.hypo_stacks[SuitOf(card)])

\* number of copies of an identity: one for a dark suit and for the variant's
\* critical rank, otherwise 3, 2, 2, 2, 1 for the ranks 1 to 5
TotalCopies(v, identity) ==
    IF v.suits[SuitOf(identity)] \in Darkish \/ v.criticalRank = RankOf(identity) THEN 1
    ELSE <<3, 2, 2, 2, 1>>[RankOf(identity)]

\* C21: isCritical is true exactly when the discarded copies of the identity
\* number its total copy count minus one.
CriticalAtLastCopy ==
    cv_out.called =>
        (cv_out.critical <=>
            cv_in.state.discard_stacks[SuitOf(cv_in.card)][RankOf(cv_in.card)]
                = TotalCopies(cv_in.state.variant, cv_in.card) - 1)

\* two discarded rank-1 copies of a normal suit make the identity critical
CriticalAtLastCopyWitness ==
    /\ cv_out.called
    /\ cv_in.card = <<0, 1>>
    /\ cv_in.state.variant = ValueVariant
    /\ cv_in.state.discard_stacks[0][1] = 2
    /\ cv_out.critical
    /\ cv_out.value = 5

\* ------------------------------------------------------------------------
\* Properties of the replay driver
\* ------------------------------------------------------------------------
\* positions of the draw actions in what was delivered
Draws(stream) == {i \in 1..Len(stream) : stream[i].type = "draw"}

\* number of the cards of the starting hands
DealtCards == Cardinality(ReplayPlayers) * HandSize

\* C22: every draw action delivered for the agent's own player index carries
\* the sentinel identity (-1, -1), in the initial deal and later, and every draw
\* action for another player carries the identity the deck has at that order.
OwnDrawsWithheld ==
    \A i \in Draws(replay.stream) :
        LET draw == replay.stream[i]
        IN  IF draw.playerIndex = replay.ourPlayerIndex
            THEN draw.identity = NoId
            ELSE draw.identity = replay.deck[draw.order + 1] /\ draw.identity # NoId

\* after the deal, the agent and another player have each drawn a card
OwnDrawsWithheldWitness ==
    /\ replay.phase = "done"
    /\ \E i, j \in Draws(replay.stream) :
           /\ replay.stream[i].order >= DealtCards
           /\ replay.stream[i].playerIndex = replay.ourPlayerIndex
           /\ replay.stream[i].identity = NoId
           /\ replay.stream[j].order >= DealtCards
           /\ replay.stream[j].playerIndex # replay.ourPlayerIndex
           /\ replay.stream[j].identity = replay.deck[replay.stream[j].order + 1]

\* C23: the n-th draw action delivered (counting from 0) carries order n, no
\* order is used twice, and after the starting hands a draw comes directly after
\* a play or discard of the same player and only for an order below the deck
\* length.
DrawOrdersCount ==
    \A i \in Draws(replay.stream) :
        LET draw == replay.stream[i]
            n == Cardinality({j \in Draws(replay.stream) : j < i})
        IN  /\ draw.order = n
            /\ \A j \in Draws(replay.stream) : replay.stream[j].order = draw.order => j = i
            /\ n >= DealtCards =>
                   /\ replay.stream[i - 1].type \in {"play", "discard"}
                   /\ replay.stream[i - 1].playerIndex = draw.playerIndex
                   /\ draw.order < Len(replay.deck)

\* the deck runs out: the last card is drawn after a play or discard, and a later
\* play or discard is followed by no draw
DrawOrdersCountWitness ==
    /\ replay.phase = "done"
    /\ Cardinality(Draws(replay.stream)) = Len(replay.deck)
    /\ \E i, j \in 1..Len(replay.stream) :
           /\ i < j
           /\ replay.stream[i].type = "draw" /\ replay.stream[i].order >= DealtCards
           /\ replay.stream[j].type \in {"play", "discard"}
           /\ replay.stream[j + 1].type # "draw"

GameOvers(stream) == {i \in 1..Len(stream) : stream[i].type = "gameOver"}

\* C30: the driver delivers exactly one gameOver action and it is the last
\* action delivered, whether the game ends by a third strike, by an END_GAME
\* action of the log or at the end of the log.
GameOverOnceLast ==
    /\ \A i \in GameOvers(replay.stream) : i = Len(replay.stream)
    /\ replay.phase = "done" => GameOvers(replay.stream) = {Len(replay.stream)}

\* C24: find_focus_possible works on copies only. After it returns, the state
\* passed in has the play stacks it had before the call and none of the cards
\* in its hands has had its finessed flag set; the stack advances and the
\* finessed marks made while extending a connection chain are in the cloned
\* hypothesis state.
FocusLeavesState ==
    fp_out.called =>
        /\ fp_out.state.play_stacks = fp_in.state.play_stacks
        /\ fp_out.state.finessed = {}
        /\ fp_out.hypo_state.finessed = fp_out.finessed

\* a call that followed a finesse: the hypothesis is marked and ahead of the state
FocusLeavesStateWitness ==
    /\ fp_out.called
    /\ fp_out.finessed # {}
    /\ \E x \in Suits : fp_out.hypo_state.play_stacks[x] > fp_in.state.play_stacks[x]
    /\ fp_out.state.play_stacks = fp_in.state.play_stacks

\* C29: every interpretation returned by find_focus_possible names a legal
\* identity: its rank is between 1 and 5, also when the play stack of the
\* clued suit is already complete at 5.
FocusRanksLegal ==
    fp_out.called =>
        \A i \in 1..Len(fp_out.focus_possible) :
            fp_out.focus_possible[i].rank \in 1..MaxRank

\* C28: the options argument of determine_clue is optional. A call without
\* options raises no error, whatever candidate clues exist for the target
\* card, and returns what a call with no exclusions and save = false returns.
OptionsOptional ==
    (dc_out.called /\ ~dc_options.defined) =>
        /\ ~dc_out.thrown
        /\ dc_out = [called |-> TRUE] @@
               determine_clue(GameState, variant, hand, ClueTarget, dc_target_card,
                              [defined |-> TRUE, excludeColour |-> FALSE,
                               excludeRank |-> FALSE, save |-> FALSE], dc_sims)

\* C25: every call of take_action sends exactly one command, never zero and
\* never two, on every path through its decision procedure.
ExactlyOneCommand ==
    ta_out.called => Len(ta_out.sent) = 1

IsClue(command) == command.type \in {COLOUR, RANK}

UrgentAt(i) ==
    LET p == (ta_in.ourPlayerIndex + i) % ta_in.numPlayers
    IN  /\ ta_in.save_clues[p] # NoClue
        /\ ta_in.playables[p] = 0
        /\ ta_in.play_clues[p] = <<>>

\* C27: with a clue token, when some other player has a save clue available,
\* no playable card and no play clue, the command sent is the save clue for
\* the first such player in turn order after the agent.
UrgentSaveFirst ==
    ta_out.called =>
        \A i \in 1..(ta_in.numPlayers - 1) :
            (/\ ta_in.clue_tokens > 0
             /\ UrgentAt(i)
             /\ \A j \in 1..(i - 1) : ~UrgentAt(j)) =>
                LET p == (ta_in.ourPlayerIndex + i) % ta_in.numPlayers
                IN  ta_out.sent = <<Command(ta_in.save_clues[p].type, p,
                                            ta_in.save_clues[p].value)>>

\* the next player needs a save but can be given a play clue, the one after
\* needs an urgent save, and the agent has a playable card: the urgent save is sent
UrgentSaveFirstWitness ==
    /\ ta_out.called
    /\ ta_in.numPlayers = 3
    /\ ta_in.clue_tokens > 0
    /\ ta_in.own_playables # <<>>
    /\ LET p == (ta_in.ourPlayerIndex + 1) % 3
       IN  /\ ta_in.save_clues[p] # NoClue
           /\ ta_in.playables[p] = 0
           /\ ta_in.play_clues[p] # <<>>
    /\ UrgentAt(2)
    /\ ta_out.sent = <<Command(RANK, (ta_in.ourPlayerIndex + 2) % 3, 5)>>

====
